---- MODULE Spec2Model ----
(***************************************************************************)
(* chift-mcp: the tool customisation of chift_mcp/tools.py (ToolCustomizer:*)
(* hiding of consumer_id, flattening of pagination) and the request        *)
(* middleware of chift_mcp/middleware.py, as state machines.               *)
(***************************************************************************)
EXTENDS Integers, Sequences, FiniteSets, TLC

VARIABLES
    tool,       \* the Tool handed to ToolCustomizer: its parameter properties
    self,       \* the ToolCustomizer instance: page, size, count, total, consumer_id
    built,      \* what customize_tool returned (the arguments of Tool.from_tool)
    task,       \* one record per invocation (asyncio task) of the customised tool
    auth,       \* the UserAuthMiddleware instance: consumer_id
    upstream,   \* the upstream API: the connections of the consumer
    request,    \* the request travelling through the middleware chain
    response,   \* what the chain returned (or raised) for that request
    executed,   \* the tool executions that reached the upstream API
    served,     \* the number of requests received so far
    config,     \* the function_config handed to import_toolkit_functions
    consumer,   \* the consumer the registry is built for, and its connections
    toolkit,    \* the generated toolkit module: present or not, failing registrations
    mcp,        \* the FastMCP server under construction: its tools, the calls made on it
    build,      \* how far the registry build has come, and what it raised
    doc,        \* the OpenAPI document handed to resolve_openapi_refs
    resolution, \* the traversal of resolve_refs_recursive and its result
    wrapper,    \* create_wrapper_without_consumer_id: its arguments, its result, a call of the result
    parser,     \* an OpenAPIParser: which implementation, its file, its _openapi_data
    generated,  \* what each run() of the parser produced, in order
    mapper      \* the ChiftMCPMapper: the tools create_mcp_tools made

toolVars == <<tool, self, built, task>>

mwVars == <<auth, upstream, request, response, executed, served>>

buildVars == <<config, consumer, toolkit, mcp, build>>

refVars == <<doc, resolution>>

genVars == <<wrapper, parser, generated, mapper>>

vars == <<tool, self, built, task, auth, upstream, request, response, executed, served,
          config, consumer, toolkit, mcp, build, doc, resolution, wrapper,
          parser, generated, mapper>>

----------------------------------------------------------------------------
(* Bounds of the model *)

MaxLimit == 3

MaxPageItems == 2

MaxTotal == 3

MaxFetch == 2

(* Program constants *)

DefaultSize == 100

SizeCap == 100

LimitLe == 100

DefaultLimit == 50

Absent == 0

Tasks == {"t1", "t2"}

ConsumerIds == {"c1", "c2"}

(* The consumer_id state of a request context: unbound, or bound *)
Contexts == {"none"} \cup ConsumerIds

NoId == "none"

(* limit is validated by Field(ge=1, le=100) before pagination_response runs;
   a caller that passes none gets the default *)
Limits == (1..MaxLimit) \cup {DefaultLimit, LimitLe}

Min(a, b) == IF a < b THEN a ELSE b

----------------------------------------------------------------------------
(* Upstream responses: response.structured_content is None or a dict *)

NoneContent == [kind |-> "none", keys |-> {}, items |-> <<>>, total |-> 0]

KeySets == {{}, {"other"}, {"items"}, {"total"}, {"items", "total"}}

Ids(base, n) == [j \in 1..n |-> base + j]

StructuredContents(base) ==
    {NoneContent} \cup
    { [kind |-> "dict", keys |-> ks,
       items |-> IF "items" \in ks THEN Ids(base, n) ELSE <<>>,
       total |-> IF "total" \in ks THEN tot ELSE 0] :
         ks \in KeySets, n \in 0..MaxPageItems, tot \in 0..MaxTotal }

(* `if structured_content:` -- None and the empty dict are both falsy *)
Truthy(sc) == sc.kind = "dict" /\ sc.keys # {}

GetItems(sc) == IF "items" \in sc.keys THEN sc.items ELSE <<>>

GetTotal(sc) == IF "total" \in sc.keys THEN sc.total ELSE 0

----------------------------------------------------------------------------
(* ToolCustomizer *)

ToolProps == {{}, {"consumer_id"}, {"page", "size"}, {"consumer_id", "page", "size"}}

(* tool.output_schema: None, or a schema with the named properties *)
NullSchema == [is_null |-> TRUE, properties |-> {}]

SchemaOf(properties) == [is_null |-> FALSE, properties |-> properties]

OutputSchemas == {NullSchema, SchemaOf({"items", "total"}), SchemaOf({"total"})}

NotBuilt == [state |-> "unbuilt", made |-> FALSE, hidden |-> {}, default_cid |-> NoId,
             paginate |-> FALSE, output_schema |-> NullSchema, error |-> "none"]

InitSelf(cid) == [page |-> 1, size |-> DefaultSize, count |-> 0, total |-> Absent,
                  consumer_id |-> cid]

NoRequest == [page |-> Absent, size |-> Absent, consumer_id |-> NoId]

NoResponse == [truthy |-> FALSE, n |-> 0, total |-> 0]

(* A task's locals (limit, kwargs, all_items), its request context, and the
   history of its exchange with the upstream: the number of forwards issued,
   the arguments of the latest one, the number of responses received, how many
   of them had content, and the shape of the latest one *)
IdleTask == [pc |-> "idle", limit |-> Absent, ctx |-> NoId, kwargs |-> NoRequest,
             all_items |-> <<>>, nfetch |-> 0, req |-> NoRequest,
             nresp |-> 0, ntruthy |-> 0, last |-> NoResponse,
             outcome |-> "none", result |-> <<>>]

InitTools ==
    /\ tool \in {[props |-> p, output_schema |-> o] : p \in ToolProps, o \in OutputSchemas}
    /\ self \in {InitSelf(c) : c \in {NoId, "c1"}}
    /\ built = NotBuilt
    /\ task = [t \in Tasks |-> IdleTask]

(* customize_tool: which transforms apply *)
ChangeConsumerId == self.consumer_id # NoId /\ "consumer_id" \in tool.props

ShouldPaginate == "page" \in tool.props /\ "size" \in tool.props

(* transform_args=transform_args if change_consumer_id else None *)
TransformArgs ==
    IF ChangeConsumerId
    THEN {"consumer_id"} \cup (IF ShouldPaginate THEN {"page", "size"} ELSE {})
    ELSE {}

(* the schema customize_tool computes at lines 72-76 and only logs:
   the `items` property of the original schema *)
LoggedOutputSchema ==
    IF ShouldPaginate /\ ~tool.output_schema.is_null
    THEN tool.output_schema.properties \cap {"items"}
    ELSE {}

(* Tool.from_tool(..., output_schema=None): depending on the fastmcp release
   None disables the output schema or leaves the parent's in place; it never
   is the schema computed above.  A tool that needs no transform is not
   replaced and keeps its schema.  `inherits`: which of the two the installed
   release does *)
FromToolOutputSchema(inherits) ==
    IF (ChangeConsumerId \/ ShouldPaginate) /\ ~inherits
    THEN NullSchema
    ELSE tool.output_schema

customize_tool(inherits) ==
    /\ built.state = "unbuilt"
    /\ built' = [state |-> "built",
                 made |-> ChangeConsumerId \/ ShouldPaginate,
                 hidden |-> IF ChangeConsumerId \/ ShouldPaginate THEN TransformArgs ELSE {},
                 default_cid |-> IF ChangeConsumerId THEN self.consumer_id ELSE NoId,
                 paginate |-> ShouldPaginate,
                 output_schema |-> FromToolOutputSchema(inherits),
                 error |-> "none"]
    /\ UNCHANGED <<tool, self, task>>

(* The parameters the registered tool exposes to a caller *)
ExposedParams == (tool.props \ built.hidden) \cup (IF built.paginate THEN {"limit"} ELSE {})

(* The arguments a caller may pass for the exposed parameters *)
CallerKwargs ==
    { [page |-> pg.page, size |-> pg.size, consumer_id |-> c] :
        pg \in (IF "page" \in ExposedParams
                THEN {[page |-> Absent, size |-> Absent], [page |-> 2, size |-> 2]}
                ELSE {[page |-> Absent, size |-> Absent]}),
        c \in (IF "consumer_id" \in ExposedParams THEN ConsumerIds ELSE {NoId}) }

(* A fault the binding claim must exclude: forward passes on what the caller
   passed for consumer_id although the parameter is hidden, so that the
   default bound by customize_tool never reaches the fetch *)
ForwardArgsUnbound(kw, s) ==
    [page |-> IF "page" \in built.hidden THEN s.page ELSE kw.page,
     size |-> IF "size" \in built.hidden THEN s.size ELSE kw.size,
     consumer_id |-> kw.consumer_id]

(* forward: hidden arguments take their default / default_factory value
   at the time of the call, the others are what the caller passed *)
ForwardArgs(kw, s) ==
    [page |-> IF "page" \in built.hidden THEN s.page ELSE kw.page,
     size |-> IF "size" \in built.hidden THEN s.size ELSE kw.size,
     consumer_id |-> IF "consumer_id" \in built.hidden THEN built.default_cid
                     ELSE kw.consumer_id]

(* self.size = limit if limit and limit < 100 else 100 *)
SizeFor(limit) == IF limit # 0 /\ limit < SizeCap THEN limit ELSE SizeCap

(* all_items.extend(page) *)
Extend(all, page) == all \o page

(* the break condition of _iter_pages *)
StopCond(count, total, items, limit) ==
    (count >= total \/ items = <<>>) \/ (limit # 0 /\ count >= limit)

(* A fault the cancellation claim must exclude: the loop swallows the
   cancellation and hands back what it has accumulated *)
CancelledSwallowed(tk) ==
    [tk EXCEPT !.pc = "cancelled", !.outcome = "ok", !.result = tk.all_items]

(* The task after it is cancelled at `await forward`: _iter_pages and
   pagination_response catch nothing, so CancelledError reaches the caller
   and nothing is returned *)
Cancelled(tk) == [tk EXCEPT !.pc = "cancelled", !.outcome = "CancelledError"]

(* The shape of a response, as the loop reads it *)
Shape(sc) == [truthy |-> Truthy(sc), n |-> Len(GetItems(sc)), total |-> GetTotal(sc)]

(* A call of the registered tool starts: pagination_response/_iter_pages up to
   the first `await forward`, or the single forward of a tool without
   pagination *)
Invoke(t, lim, cx, kw) ==
    /\ built.state = "built"
    /\ task[t].pc = "idle"
    /\ LET s1 == IF built.paginate
                 THEN [self EXCEPT !.size = SizeFor(lim), !.page = 1, !.count = 0]
                 ELSE self
       IN /\ self' = s1
          /\ task' = [task EXCEPT ![t] =
                        [@ EXCEPT !.pc = "awaiting",
                                  !.limit = IF built.paginate THEN lim ELSE Absent,
                                  !.ctx = cx,
                                  !.kwargs = kw,
                                  !.nfetch = 1,
                                  !.req = ForwardArgs(kw, s1)]]
    /\ UNCHANGED <<tool, built>>

(* The awaited forward returns: the rest of the loop body of _iter_pages, the
   extend of pagination_response, and either the return or the next forward *)
Resume(t, sc) ==
    /\ task[t].pc = "awaiting"
    /\ task[t].nresp < MaxFetch
    /\ IF ~built.paginate
       THEN /\ task' = [task EXCEPT ![t] =
                          [@ EXCEPT !.pc = "done", !.outcome = "ok",
                                    !.nresp = @ + 1, !.last = Shape(sc),
                                    !.result = GetItems(sc)]]
            /\ self' = self
       ELSE IF Truthy(sc)
       THEN LET items == GetItems(sc)
                all == Extend(task[t].all_items, items)
                s1 == [self EXCEPT !.page = @ + 1,
                                   !.count = @ + Len(items),
                                   !.total = GetTotal(sc)]
            IN /\ self' = s1
               /\ IF StopCond(s1.count, s1.total, items, task[t].limit)
                  THEN task' = [task EXCEPT ![t] =
                                  [@ EXCEPT !.pc = "done", !.outcome = "ok",
                                            !.nresp = @ + 1, !.ntruthy = @ + 1,
                                            !.last = Shape(sc),
                                            !.all_items = all,
                                            !.result = all]]
                  ELSE task' = [task EXCEPT ![t] =
                                  [@ EXCEPT !.nresp = @ + 1, !.ntruthy = @ + 1,
                                            !.last = Shape(sc),
                                            !.all_items = all,
                                            !.nfetch = @ + 1,
                                            !.req = ForwardArgs(task[t].kwargs, s1)]]
       ELSE /\ self' = self
            /\ task' = [task EXCEPT ![t] =
                          [@ EXCEPT !.nresp = @ + 1, !.last = Shape(sc),
                                    !.nfetch = @ + 1,
                                    !.req = ForwardArgs(task[t].kwargs, self)]]
    /\ UNCHANGED <<tool, built>>

(* The same loop in two steps, for the question whether it ends.  Answer: the
   upstream answers the outstanding forward.  LoopBody: the task is resumed
   and runs from the assignment of response to the next `await forward` or to
   the return.  The history of the exchange (nfetch, nresp, ntruthy, req of
   earlier fetches) is not advanced here, so that an invocation that never
   returns is a cycle of states and not an unbounded count *)
Answer(t, sc) ==
    /\ task[t].pc = "awaiting"
    /\ task' = [task EXCEPT ![t] = [@ EXCEPT !.pc = "answered", !.last = Shape(sc)]]
    /\ UNCHANGED <<tool, self, built>>

LoopBody(t) ==
    /\ task[t].pc = "answered"
    /\ LET items == Ids(Len(task[t].all_items), task[t].last.n)
       IN IF ~built.paginate
          THEN /\ task' = [task EXCEPT ![t] =
                             [@ EXCEPT !.pc = "done", !.outcome = "ok", !.result = items]]
               /\ self' = self
          ELSE IF task[t].last.truthy
          THEN LET all == Extend(task[t].all_items, items)
                   s1 == [self EXCEPT !.page = @ + 1,
                                      !.count = @ + Len(items),
                                      !.total = task[t].last.total]
               IN /\ self' = s1
                  /\ IF StopCond(s1.count, s1.total, items, task[t].limit)
                     THEN task' = [task EXCEPT ![t] =
                                     [@ EXCEPT !.pc = "done", !.outcome = "ok",
                                               !.all_items = all, !.result = all]]
                     ELSE task' = [task EXCEPT ![t] =
                                     [@ EXCEPT !.pc = "awaiting", !.all_items = all,
                                               !.req = ForwardArgs(task[t].kwargs, s1)]]
          ELSE /\ self' = self
               /\ task' = [task EXCEPT ![t] =
                             [@ EXCEPT !.pc = "awaiting",
                                       !.req = ForwardArgs(task[t].kwargs, self)]]
    /\ UNCHANGED <<tool, built>>

(* The enclosing invocation is cancelled while forward is outstanding *)
Cancel(t) ==
    /\ task[t].pc = "awaiting"
    /\ task' = [task EXCEPT ![t] = Cancelled(task[t])]
    /\ UNCHANGED <<tool, self, built>>

Delivered(t) == Len(task[t].all_items)

(* The tool customised for a configured consumer, with consumer_id, page and
   size among its parameters *)
FullTool == [props |-> {"consumer_id", "page", "size"},
             output_schema |-> SchemaOf({"items", "total"})]

FrozenTools ==
    /\ tool = FullTool
    /\ self = InitSelf("c1")
    /\ built = NotBuilt
    /\ task = [t \in Tasks |-> IdleTask]

----------------------------------------------------------------------------
(* The middleware chain of get_mcp: UserAuthMiddleware, FilterToolsMiddleware *)

MaxConns == 2

MaxRequests == 2

ConnectionTypePairs ==
    { <<"Accounting", "accounting">>, <<"Point of Sale", "pos">>,
      <<"eCommerce", "ecommerce">>, <<"Invoicing", "invoicing">>,
      <<"Banking", "banking">>, <<"Payment", "payment">>,
      <<"Property Management System", "pms">>, <<"Custom", "custom">> }

CONNECTION_TYPES ==
    [api \in {p[1] : p \in ConnectionTypePairs} |->
        (CHOOSE p \in ConnectionTypePairs : p[1] = api)[2]]

(* The API families a connection of the consumer may report; the last one is
   no key of CONNECTION_TYPES *)
Families == {"Accounting", "Point of Sale", "eCommerce", "Legacy ERP"}

ConnectionLists == UNION {[1..n -> Families] : n \in 0..MaxConns}

(* The tools the downstream handler (call_next) lists; tags may be None or empty *)
Registry ==
    << [name |-> "accounting_invoice_all", has_tags |-> TRUE, tags |-> {"accounting", "other"}],
       [name |-> "pos_order_get", has_tags |-> TRUE, tags |-> {"pos"}],
       [name |-> "ecommerce_product_all", has_tags |-> TRUE, tags |-> {"ecommerce"}],
       [name |-> "consumers", has_tags |-> FALSE, tags |-> {}],
       [name |-> "get_consumer", has_tags |-> TRUE, tags |-> {}] >>

Range(f) == {f[i] : i \in DOMAIN f}

ToolNames == {Registry[i].name : i \in DOMAIN Registry}

Names(tools) == [i \in DOMAIN tools |-> tools[i].name]

NoRequestYet == [phase |-> "idle", method |-> "none", has_ctx |-> FALSE,
                 state_cid |-> NoId, name |-> "none", lookup |-> "none"]

NoResponseYet == [status |-> "none", error |-> "none", tools |-> <<>>]

Raise(e) == [status |-> "error", error |-> e, tools |-> <<>>]

Return(tools) == [status |-> "ok", error |-> "none", tools |-> tools]

InitMiddleware ==
    /\ auth \in {[consumer_id |-> c] : c \in {NoId, "c1"}}
    /\ upstream \in {[connections |-> cs] : cs \in ConnectionLists}
    /\ request = NoRequestYet
    /\ response = NoResponseYet
    /\ executed = {}
    /\ served = 0

FrozenMiddleware ==
    /\ auth = [consumer_id |-> NoId]
    /\ upstream = [connections |-> <<>>]
    /\ request = NoRequestYet
    /\ response = NoResponseYet
    /\ executed = {}
    /\ served = 0

(* A request of the host enters the chain *)
Receive(m, hc, nm) ==
    /\ request.phase \in {"idle", "done"}
    /\ served < MaxRequests
    /\ request' = [phase |-> "received", method |-> m, has_ctx |-> hc,
                   state_cid |-> NoId, name |-> nm, lookup |-> "none"]
    /\ response' = NoResponseYet
    /\ served' = served + 1
    /\ UNCHANGED <<auth, upstream, executed>>

(* A fault the request-state claim must exclude: the request is handed
   downstream before the consumer id is put into the context state *)
on_request_without_state ==
    /\ request.phase = "received"
    /\ IF auth.consumer_id # NoId /\ ~request.has_ctx
       THEN /\ request' = [request EXCEPT !.phase = "done"]
            /\ response' = Raise("ValueError")
       ELSE /\ request' = [request EXCEPT !.phase = "authed"]
            /\ response' = response
    /\ UNCHANGED <<auth, upstream, executed, served>>

(* UserAuthMiddleware.on_request *)
on_request ==
    /\ request.phase = "received"
    /\ IF auth.consumer_id = NoId
       THEN request' = [request EXCEPT !.phase = "authed"] /\ response' = response
       ELSE IF ~request.has_ctx
       THEN /\ request' = [request EXCEPT !.phase = "done"]
            /\ response' = Raise("ValueError")
       ELSE /\ request' = [request EXCEPT !.phase = "authed",
                                          !.state_cid = auth.consumer_id]
            /\ response' = response
    /\ UNCHANGED <<auth, upstream, executed, served>>

(* FilterToolsMiddleware.connection_types for a consumer id that is not None:
   CONNECTION_TYPES[connection.api] raises KeyError on a family that is no key *)
HasUnmapped(conns) == \E i \in DOMAIN conns : conns[i] \notin DOMAIN CONNECTION_TYPES

connection_types(conns) == [i \in DOMAIN conns |-> CONNECTION_TYPES[conns[i]]]

(* A fault the listing claim must exclude: every tag, instead of any tag, has
   to be a connection type of the caller *)
KeepIfAllTags(tl, types) == tl.has_tags /\ \A tag \in tl.tags : tag \in Range(types)

(* tool.tags and any(tag in connection_types for tag in tool.tags) *)
Keep(tl, types) == tl.has_tags /\ tl.tags # {} /\ \E tag \in tl.tags : tag \in Range(types)

FilterTools(tools, types) == SelectSeq(tools, LAMBDA tl : Keep(tl, types))

(* A fault the missing-context claim must exclude: the context is looked at
   only to read the consumer id, so a request without one is listed as an
   unscoped caller's *)
on_list_tools_without_context(lookup_ok) ==
    /\ request.phase = "authed"
    /\ request.method = "tools/list"
    /\ response' = IF request.has_ctx /\ lookup_ok
                   THEN Return(Names(Registry)) ELSE Return(<<>>)
    /\ request' = [request EXCEPT !.phase = "done"]
    /\ UNCHANGED <<auth, upstream, executed, served>>

(* FilterToolsMiddleware.on_list_tools; lookup_ok: whether chift.Consumer.get /
   consumer.Connection.all answer *)
on_list_tools(lookup_ok) ==
    /\ request.phase = "authed"
    /\ request.method = "tools/list"
    /\ IF ~request.has_ctx
       THEN /\ response' = Raise("ValueError")
            /\ request' = [request EXCEPT !.phase = "done"]
       ELSE IF request.state_cid = NoId
       THEN /\ response' = Return(Names(Registry))
            /\ request' = [request EXCEPT !.phase = "done"]
       ELSE IF ~lookup_ok
       THEN /\ response' = Raise("UpstreamError")
            /\ request' = [request EXCEPT !.phase = "done", !.lookup = "failed"]
       ELSE IF HasUnmapped(upstream.connections)
       THEN /\ response' = Raise("KeyError")
            /\ request' = [request EXCEPT !.phase = "done", !.lookup = "ok"]
       ELSE /\ response' = Return(Names(FilterTools(Registry,
                                        connection_types(upstream.connections))))
            /\ request' = [request EXCEPT !.phase = "done", !.lookup = "ok"]
    /\ UNCHANGED <<auth, upstream, executed, served>>

(* A tools/call request: FilterToolsMiddleware defines no on_call_tool, so the
   request goes on to the tool, which runs against the upstream API *)
on_call_tool ==
    /\ request.phase = "authed"
    /\ request.method = "tools/call"
    /\ executed' = executed \cup {[tool |-> request.name, consumer_id |-> request.state_cid]}
    /\ response' = Return(<<>>)
    /\ request' = [request EXCEPT !.phase = "done"]
    /\ UNCHANGED <<auth, upstream, served>>

----------------------------------------------------------------------------
(* The registry build: validate_config and import_toolkit_functions of
   chift_mcp/utils/importer.py, customize_tools of chift_mcp/tools.py *)

MaxOps == 3

(* chift_mcp/constants.py *)
CHIFT_DOMAINS == {"accounting", "commerce", "invoicing", "payment", "pms", "pos"}

CHIFT_OPERATION_TYPES == {"get", "all", "create", "update", "delete"}

(* A function_config: a dict {domain: value}, or something that is no dict;
   a value is a list of operation types, or something that is no list *)
NotADict == [kind |-> "other", items |-> <<>>]

NotAList == [list |-> FALSE, ops |-> <<>>]

ListOf(ops) == [list |-> TRUE, ops |-> ops]

Dict(f) == [kind |-> "dict", items |-> f]

SeqsUpTo(S, n) == UNION {[1..k -> S] : k \in 0..n}

ConfigsOver(domains, ops, n) ==
    {NotADict} \cup
    { Dict(f) : f \in UNION { [D -> {NotAList} \cup {ListOf(o) : o \in SeqsUpTo(ops, n)}] :
                                D \in SUBSET domains } }

ValueError == [ok |-> FALSE, error |-> "ValueError", value |-> <<>>]

Validated(f) == [ok |-> TRUE, error |-> "none", value |-> f]

(* A fault the deduplication claim must exclude: a repeated operation type
   takes the place of its last occurrence instead of its first *)
RECURSIVE unique_operations_keep_last(_)
unique_operations_keep_last(operations) ==
    IF operations = <<>> THEN <<>>
    ELSE IF Head(operations) \in Range(Tail(operations))
         THEN unique_operations_keep_last(Tail(operations))
         ELSE <<Head(operations)>> \o unique_operations_keep_last(Tail(operations))

(* the inner loop of validate_config over the valid operations of a domain *)
RECURSIVE AddUnique(_, _)
AddUnique(operations, unique) ==
    IF operations = <<>> THEN unique
    ELSE AddUnique(Tail(operations),
                   IF Head(operations) \in Range(unique) THEN unique
                   ELSE Append(unique, Head(operations)))

unique_operations(operations) == AddUnique(operations, <<>>)

(* the checks of validate_config on one item of the dict *)
ItemRaises(domain, operations) ==
    \/ domain \notin CHIFT_DOMAINS
    \/ ~operations.list
    \/ \E i \in DOMAIN operations.ops : operations.ops[i] \notin CHIFT_OPERATION_TYPES

(* A fault the validation claim must exclude: the domain is not checked *)
validate_config_any_domain(function_config) ==
    IF function_config.kind # "dict" THEN ValueError
    ELSE IF \E d \in DOMAIN function_config.items :
                \/ ~function_config.items[d].list
                \/ \E i \in DOMAIN function_config.items[d].ops :
                      function_config.items[d].ops[i] \notin CHIFT_OPERATION_TYPES
    THEN ValueError
    ELSE Validated([d \in DOMAIN function_config.items |->
                       unique_operations(function_config.items[d].ops)])

validate_config(function_config) ==
    IF function_config.kind # "dict" THEN ValueError
    ELSE IF \E d \in DOMAIN function_config.items :
                ItemRaises(d, function_config.items[d])
    THEN ValueError
    ELSE Validated([d \in DOMAIN function_config.items |->
                       unique_operations(function_config.items[d].ops)])

(* dir(module) of the generated toolkit, in its sorted order: each name with
   the parts name.split("_", 2) gives, whether the object is callable and the
   name of its first parameter *)
Toolkit ==
    << [name |-> "__doc__", parts |-> <<"", "", "doc__">>, callable |-> FALSE,
        first_param |-> "none"],
       [name |-> "accounting_get_invoices", parts |-> <<"accounting", "get", "invoices">>,
        callable |-> TRUE, first_param |-> "consumer_id"],
       [name |-> "accounting_update_client", parts |-> <<"accounting", "update", "client">>,
        callable |-> TRUE, first_param |-> "consumer_id"],
       [name |-> "commerce_get_orders", parts |-> <<"commerce", "get", "orders">>,
        callable |-> TRUE, first_param |-> "consumer_id"],
       [name |-> "helper", parts |-> <<"helper">>, callable |-> TRUE,
        first_param |-> "value"],
       [name |-> "pos_get_orders", parts |-> <<"pos", "get", "orders">>,
        callable |-> TRUE, first_param |-> "consumer_id"] >>

ToolkitNames == {Toolkit[i].name : i \in DOMAIN Toolkit}

StartsWithDunder(e) == e.parts[1] = "" /\ Len(e.parts) >= 2 /\ e.parts[2] = ""

(* the tools registered by decorator before the toolkit is imported *)
ConsumerTools ==
    << [name |-> "consumers", wrapped |-> FALSE],
       [name |-> "get_consumer", wrapped |-> FALSE],
       [name |-> "consumer_connections", wrapped |-> FALSE] >>

(* importer.get_connection_types, once the lookup has answered *)
get_connection_types(cons) ==
    IF cons.id = NoId THEN Range(CONNECTION_TYPES)
    ELSE Range(connection_types(cons.connections))

(* the conditions under which the loop of import_toolkit_functions reaches
   mcp.add_tool for a name of the module *)
Matching(e, types, cfg) ==
    /\ e.callable /\ ~StartsWithDunder(e)
    /\ Len(e.parts) >= 2
    /\ e.parts[1] \in types
    /\ e.parts[1] \in DOMAIN cfg /\ e.parts[2] \in Range(cfg[e.parts[1]])

AddToolCall(e, raising) ==
    [op |-> "add_tool", name |-> e.name, by |-> "import", raised |-> e.name \in raising]

AsTool(e, cons) ==
    [name |-> e.name, wrapped |-> cons.id # NoId /\ e.first_param = "consumer_id"]

(* A fault the isolation claim must exclude: an exception of mcp.add_tool is
   not caught, so the loop ends at the first registration that raises *)
RECURSIVE RegisterUntilRaise(_, _, _)
RegisterUntilRaise(entries, raising, cons) ==
    IF entries = <<>> THEN [tools |-> <<>>, calls |-> <<>>, error |-> "none"]
    ELSE IF Head(entries).name \in raising
         THEN [tools |-> <<>>, calls |-> <<AddToolCall(Head(entries), raising)>>,
               error |-> "Exception"]
         ELSE LET rest == RegisterUntilRaise(Tail(entries), raising, cons)
              IN [tools |-> <<AsTool(Head(entries), cons)>> \o rest.tools,
                  calls |-> <<AddToolCall(Head(entries), raising)>> \o rest.calls,
                  error |-> rest.error]

(* the registrations of the loop: mcp.add_tool for each matching name, in
   order, an exception of add_tool caught and logged *)
Register(entries, raising, cons) ==
    [tools |-> [i \in DOMAIN SelectSeq(entries, LAMBDA e : e.name \notin raising) |->
                  AsTool(SelectSeq(entries, LAMBDA e : e.name \notin raising)[i], cons)],
     calls |-> [i \in DOMAIN entries |-> AddToolCall(entries[i], raising)],
     error |-> "none"]

NotStarted == [phase |-> "start", error |-> "none", validated |-> <<>>, lookup |-> "none",
               imported |-> FALSE]

Failed(e, lk) == [phase |-> "failed", error |-> e, validated |-> <<>>, lookup |-> lk,
                  imported |-> FALSE]

(* import_toolkit_functions(config, mcp, consumer_id); lookup_ok: whether
   chift.Consumer.get / consumer.Connection.all answer *)
import_toolkit_functions(lookup_ok) ==
    /\ build.phase = "start"
    /\ LET v == validate_config(config)
       IN IF ~v.ok
          THEN build' = Failed("ValueError", "none") /\ mcp' = mcp
          ELSE IF ~toolkit.exists
          THEN build' = Failed("FileNotFoundError", "none") /\ mcp' = mcp
          ELSE IF consumer.id # NoId /\ ~lookup_ok
          THEN build' = Failed("UpstreamError", "failed") /\ mcp' = mcp
          ELSE IF consumer.id # NoId /\ HasUnmapped(consumer.connections)
          THEN build' = Failed("KeyError", "ok") /\ mcp' = mcp
          ELSE LET types == get_connection_types(consumer)
                   matching == SelectSeq(Toolkit, LAMBDA e : Matching(e, types, v.value))
                   r == Register(matching, toolkit.raising, consumer)
               IN /\ mcp' = [tools |-> mcp.tools \o r.tools, calls |-> mcp.calls \o r.calls]
                  /\ build' = IF r.error = "none"
                              THEN [phase |-> "imported", error |-> "none",
                                    validated |-> v.value,
                                    lookup |-> IF consumer.id = NoId THEN "none" ELSE "ok",
                                    imported |-> TRUE]
                              ELSE Failed(r.error, "ok")
    /\ UNCHANGED <<config, consumer, toolkit>>

(* customize_tools(mcp, consumer_id): reads mcp.get_tools() and logs the names;
   the loop that replaced the tools is commented out *)
customize_tools ==
    /\ build.phase \in {"start", "imported"}
    /\ build' = [build EXCEPT !.phase = "customized"]
    /\ mcp' = mcp
    /\ UNCHANGED <<config, consumer, toolkit>>

BuildDomains == {"accounting", "commerce", "pos"}

BuildOps == {<<>>, <<"get">>, <<"get", "update">>}

(* the configurations of the build: the valid ones over three domains, and
   one of each kind that validate_config refuses *)
BuildConfigs ==
    { Dict(f) : f \in UNION { [D -> {ListOf(o) : o \in BuildOps}] : D \in SUBSET BuildDomains } }
    \cup { NotADict,
           Dict([d \in {"invalid_domain"} |-> ListOf(<<"get">>)]),
           Dict([d \in {"accounting"} |-> NotAList]),
           Dict([d \in {"accounting"} |-> ListOf(<<"get", "invalid_operation">>)]) }

Consumers ==
    {[id |-> NoId, connections |-> <<>>]} \cup
    {[id |-> "c1", connections |-> cs] : cs \in ConnectionLists}

InitBuild ==
    /\ config \in BuildConfigs
    /\ consumer \in Consumers
    /\ toolkit \in {[exists |-> x, raising |-> r] :
                       x \in BOOLEAN,
                       r \in {{}, {"accounting_get_invoices"}, {"pos_get_orders"}}}
    /\ mcp \in {[tools |-> t, calls |-> <<>>] : t \in {<<>>, ConsumerTools}}
    /\ build = NotStarted

FrozenBuild ==
    /\ config = Dict(<<>>)
    /\ consumer = [id |-> NoId, connections |-> <<>>]
    /\ toolkit = [exists |-> TRUE, raising |-> {}]
    /\ mcp = [tools |-> <<>>, calls |-> <<>>]
    /\ build = NotStarted

(* validate_config as a function of its argument alone *)
ValidationInputs ==
    ConfigsOver({"accounting", "invalid_domain"}, {"get", "update", "invalid_operation"}, MaxOps)

InitValidate ==
    /\ config \in ValidationInputs
    /\ consumer = [id |-> NoId, connections |-> <<>>]
    /\ toolkit = [exists |-> TRUE, raising |-> {}]
    /\ mcp = [tools |-> <<>>, calls |-> <<>>]
    /\ build = NotStarted

(* a call of validate_config(config) returns or raises *)
Validate ==
    /\ build.phase = "start"
    /\ LET v == validate_config(config)
       IN build' = IF v.ok
                   THEN [phase |-> "validated", error |-> "none", validated |-> v.value,
                         lookup |-> "none", imported |-> FALSE]
                   ELSE Failed(v.error, "none")
    /\ UNCHANGED <<config, consumer, toolkit, mcp>>

----------------------------------------------------------------------------
(* resolve_openapi_refs of chift_mcp/utils/parse_openapi_deps.py *)

MaxNest == 1

(* JSON values: a dict (keys in insertion order, with their values), a list,
   or a string; a string is kept as its "/"-separated segments *)
Str(segments) == [t |-> "str", keys |-> <<>>, kids |-> <<>>, v |-> segments]

Obj(keys, kids) == [t |-> "dict", keys |-> keys, kids |-> kids, v |-> <<>>]

List(kids) == [t |-> "list", keys |-> <<>>, kids |-> kids, v |-> <<>>]

EmptyObj == Obj(<<>>, <<>>)

HasKey(obj, key) == obj.t = "dict" /\ \E i \in DOMAIN obj.keys : obj.keys[i] = key

Lookup(obj, key) == obj.kids[CHOOSE i \in DOMAIN obj.keys : obj.keys[i] = key]

(* dict.get(key, default) *)
Get(obj, key, default) == IF HasKey(obj, key) THEN Lookup(obj, key) ELSE default

SchemaPath(name) == <<"#", "components", "schemas", name>>

Ref(path) == Obj(<<"$ref">>, <<Str(path)>>)

(* A fault the circular-reference claim must exclude: on a reference that is
   in progress the reference object itself is handed back, no marker *)
CircularRefKept(ref_path) == Ref(ref_path)

(* {"$circular_ref": ref_path} *)
CircularRef(ref_path) == Obj(<<"$circular_ref">>, <<Str(ref_path)>>)

(* resolved_spec.get("components", {}).get("schemas", {}) *)
components_schemas(openapi_spec) ==
    Get(Get(openapi_spec, "components", EmptyObj), "schemas", EmptyObj)

(* "$ref" in obj and len(obj) == 1 *)
IsRefObject(obj) == obj.t = "dict" /\ obj.keys = <<"$ref">>

(* ref_path.startswith("#/components/schemas/") *)
IsSchemaRef(ref_path) ==
    Len(ref_path) >= 4 /\ SubSeq(ref_path, 1, 3) = <<"#", "components", "schemas">>

(* ref_path.split("/")[-1] *)
SchemaName(ref_path) == ref_path[Len(ref_path)]

(* A fault the termination claim must exclude: the reference being resolved
   is not added to the visited set *)
NewVisitedForgets(visited_refs, ref_path) == visited_refs

(* new_visited = visited_refs | {ref_path} *)
NewVisited(visited_refs, ref_path) == visited_refs \cup {ref_path}

(* A fault the resolution claim must exclude: only dicts are descended into,
   the items of a list are returned as they are *)
IsContainerDictOnly(obj) == obj.t = "dict"

(* the dict and list branches of resolve_refs_recursive *)
IsContainer(obj) == obj.t \in {"dict", "list"}

(* the reference object is replaced by the schema it names *)
Resolvable(obj, visited_refs, schemas) ==
    /\ IsRefObject(obj)
    /\ IsSchemaRef(obj.kids[1].v)
    /\ obj.kids[1].v \notin visited_refs
    /\ HasKey(schemas, SchemaName(obj.kids[1].v))

RECURSIVE resolve_refs_recursive(_, _, _)
resolve_refs_recursive(obj, visited_refs, schemas) ==
    IF IsRefObject(obj)
    THEN LET ref_path == obj.kids[1].v
         IN IF IsSchemaRef(ref_path)
            THEN IF ref_path \in visited_refs
                 THEN CircularRef(ref_path)
                 ELSE IF HasKey(schemas, SchemaName(ref_path))
                 THEN resolve_refs_recursive(Lookup(schemas, SchemaName(ref_path)),
                                             NewVisited(visited_refs, ref_path), schemas)
                 ELSE obj
            ELSE obj
    ELSE IF IsContainer(obj)
    THEN [obj EXCEPT !.kids = [i \in DOMAIN obj.kids |->
                                  resolve_refs_recursive(obj.kids[i], visited_refs, schemas)]]
    ELSE obj

(* The calls of resolve_refs_recursive that one call of it makes *)
Frame(obj, visited_refs) == [obj |-> obj, visited_refs |-> visited_refs]

Calls(fr, schemas) ==
    IF IsRefObject(fr.obj)
    THEN IF Resolvable(fr.obj, fr.visited_refs, schemas)
         THEN << Frame(Lookup(schemas, SchemaName(fr.obj.kids[1].v)),
                       NewVisited(fr.visited_refs, fr.obj.kids[1].v)) >>
         ELSE <<>>
    ELSE IF IsContainer(fr.obj)
    THEN [i \in DOMAIN fr.obj.kids |-> Frame(fr.obj.kids[i], fr.visited_refs)]
    ELSE <<>>

NoDoc == EmptyObj

NotResolving == [phase |-> "idle", stack |-> <<>>, result |-> EmptyObj]

(* resolve_openapi_refs(openapi_spec) up to its call of resolve_refs_recursive
   on the copied document *)
resolve_openapi_refs ==
    /\ resolution.phase = "idle"
    /\ resolution' = [phase |-> "running", stack |-> <<Frame(doc, {})>>, result |-> EmptyObj]
    /\ doc' = doc

(* One call of resolve_refs_recursive runs: the innermost pending call is
   taken up and the calls it makes become pending; when none is left
   resolve_openapi_refs returns the resolved document *)
resolve_step ==
    /\ resolution.phase = "running"
    /\ LET schemas == components_schemas(doc)
           rest == Calls(Head(resolution.stack), schemas) \o Tail(resolution.stack)
       IN resolution' =
            IF rest = <<>>
            THEN [phase |-> "done", stack |-> <<>>,
                  result |-> resolve_refs_recursive(doc, {}, schemas)]
            ELSE [resolution EXCEPT !.stack = rest]
    /\ doc' = doc

(* The documents resolved: two component schemas A and B, each a leaf, or a
   reference (to A, to B, to a schema that is missing, to a component that is
   no schema) alone, nested in properties, in a list or beside a sibling key;
   and a paths section that refers to them *)
SchemaNames == {"A", "B"}

Leaf == Obj(<<"type">>, <<Str(<<"string">>)>>)

RECURSIVE Nest(_, _)
Nest(k, node) == IF k = 0 THEN node ELSE Obj(<<"properties">>, <<Nest(k - 1, node)>>)

ParameterRef == Ref(<<"#", "components", "parameters", "P">>)

SiblingRef(name) ==
    Obj(<<"$ref", "description">>, <<Str(SchemaPath(name)), Str(<<"text">>)>>)

AllOf(name) == Obj(<<"allOf">>, <<List(<<Ref(SchemaPath(name))>>)>>)

Bodies ==
    {Leaf, ParameterRef}
    \cup {Nest(k, Ref(SchemaPath(x))) : k \in 0..MaxNest, x \in SchemaNames \cup {"Missing"}}
    \cup {AllOf(x) : x \in SchemaNames}
    \cup {SiblingRef(x) : x \in SchemaNames}
    \cup {Obj(<<"left", "right">>, <<Ref(SchemaPath(x)), Ref(SchemaPath(y))>>) :
            x \in SchemaNames, y \in SchemaNames}

PathsSections ==
    {Leaf, Obj(<<"schema">>, <<Ref(SchemaPath("A"))>>),
     Obj(<<"schema">>, <<Ref(SchemaPath("Missing"))>>),
     List(<<Ref(SchemaPath("B")), ParameterRef>>)}

Document(paths, a, b) ==
    Obj(<<"paths", "components">>,
        <<paths, Obj(<<"schemas", "parameters">>,
                     <<Obj(<<"A", "B">>, <<a, b>>), Obj(<<"P">>, <<Leaf>>)>>)>>)

Documents ==
    {Document(p, a, b) : p \in PathsSections, a \in Bodies, b \in Bodies}
    \cup {Obj(<<"paths">>, <<p>>) : p \in PathsSections}

InitRefs ==
    /\ doc \in Documents
    /\ resolution = NotResolving

FrozenRefs ==
    /\ doc = NoDoc
    /\ resolution = NotResolving

----------------------------------------------------------------------------
(* The toolkit generators: OpenAPIParser of chift_mcp/tools/generator.py and
   of tools/generator.py, the endpoint parser of openapi_spec/parser.py and
   the reflection mapper of tools/chift_mapper.py *)

MaxPaths == 2

Implementations == {"chift_mcp.tools.generator", "tools.generator", "openapi_spec.parser"}

Generators == {"chift_mcp.tools.generator", "tools.generator"}

(* A path is kept as its segments between the slashes, a segment as its
   pieces: literal text, or a {parameter}; the empty segment is what follows
   a trailing slash.  A name (an operationId, a tool name) is kept as its
   "_"-separated words *)
Lit(s) == <<[s |-> s, p |-> FALSE]>>

Par(s) == <<[s |-> s, p |-> TRUE]>>

(* "{" in segment *)
HasBrace(segment) == \E i \in DOMAIN segment : segment[i].p

(* path.split("/")[-1] *)
LastSegment(path) == IF path = <<>> THEN <<>> ELSE path[Len(path)]

(* model.replace("-", "_") *)
ReplaceDash(model) == IF model = "product-categories" THEN "product_categories" ELSE model

NoPair == [matched |-> FALSE, vertical |-> <<>>, model |-> ""]

Pair(vertical, model) == [matched |-> TRUE, vertical |-> vertical, model |-> model]

(* re.match(r"/consumers/\{[^}]+\}/([^/]+)/([^/{]+)", path): the scope
   segment is one {parameter}, the vertical is the whole third segment, the
   model is the literal head of the fourth *)
StdPatternMatches(path) ==
    /\ Len(path) >= 4
    /\ path[1] = Lit("consumers")
    /\ Len(path[2]) = 1 /\ path[2][1].p
    /\ path[3] # <<>>
    /\ path[4] # <<>> /\ ~path[4][1].p

(* path == "/consumers" or path.startswith("/consumers/{") *)
IsScopePath(path) ==
    \/ path = <<Lit("consumers")>>
    \/ /\ Len(path) >= 2
       /\ path[1] = Lit("consumers")
       /\ path[2] # <<>> /\ path[2][1].p

(* _extract_vertical_model of the two generators *)
extract_vertical_model(path) ==
    IF StdPatternMatches(path) THEN Pair(path[3], ReplaceDash(path[4][1].s))
    ELSE IF IsScopePath(path) THEN Pair(Lit("account"), "consumer")
    ELSE NoPair

(* the path_pattern of parse_openapi_endpoints: the scope segment is
   {consumer_id}, no synthetic pair, no replacement of "-" *)
path_pattern_match(path) ==
    IF StdPatternMatches(path) /\ path[2] = Par("consumer_id")
    THEN Pair(path[3], path[4][1].s)
    ELSE NoPair

VerticalModel(impl, path) ==
    IF impl = "openapi_spec.parser" THEN path_pattern_match(path)
    ELSE extract_vertical_model(path)

HttpMethods == {"get", "post", "put", "delete", "patch"}

OperationKinds == {"get", "all", "create", "update", "delete"}

(* A fault the operation-kind claim must exclude: a path counts as a
   collection only if no segment at all has a parameter *)
is_collection_no_brace_anywhere(path) == \A i \in DOMAIN path : ~HasBrace(path[i])

(* is_collection = "{" not in path.split("/")[-1] *)
is_collection(path) == ~HasBrace(LastSegment(path))

(* _http_to_sdk_method of chift_mcp/tools/generator.py *)
chift_mcp_http_to_sdk_method(http_method, path) ==
    CASE http_method = "get" -> (IF is_collection(path) THEN "all" ELSE "get")
      [] http_method = "post" -> "create"
      [] http_method = "put" -> "update"
      [] http_method = "patch" -> "update"
      [] http_method = "delete" -> "delete"
      [] OTHER -> http_method

(* _http_to_sdk_method of tools/generator.py *)
tools_http_to_sdk_method(http_method, path) ==
    LET mapping == [get |-> IF is_collection(path) THEN "all" ELSE "get",
                    post |-> "create", put |-> "update", patch |-> "update",
                    delete |-> "delete"]
    IN IF http_method \in DOMAIN mapping THEN mapping[http_method] ELSE http_method

(* _http_to_sdk_method of openapi_spec/parser.py *)
openapi_spec_http_to_sdk_method(http_method, path) ==
    LET mapping == [get |-> IF ~HasBrace(LastSegment(path)) THEN "all" ELSE "get",
                    post |-> "create", put |-> "update", patch |-> "update",
                    delete |-> "delete"]
    IN IF http_method \in DOMAIN mapping THEN mapping[http_method] ELSE http_method

http_to_sdk_method(impl, http_method, path) ==
    CASE impl = "chift_mcp.tools.generator" -> chift_mcp_http_to_sdk_method(http_method, path)
      [] impl = "tools.generator" -> tools_http_to_sdk_method(http_method, path)
      [] impl = "openapi_spec.parser" -> openapi_spec_http_to_sdk_method(http_method, path)

(* JSON values of the document beyond those above: None *)
NoneNode == [t |-> "none", keys |-> <<>>, kids |-> <<>>, v |-> <<>>]

(* `if schema`: None and the empty dict are falsy *)
IsTruthy(node) == node # NoneNode /\ node # EmptyObj

(* obj[key] = value: in place for a key the dict has, at the end otherwise *)
SetKey(obj, key, value) ==
    IF HasKey(obj, key)
    THEN [obj EXCEPT !.kids = [i \in DOMAIN obj.kids |->
                                  IF obj.keys[i] = key THEN value ELSE obj.kids[i]]]
    ELSE [obj EXCEPT !.keys = Append(obj.keys, key), !.kids = Append(obj.kids, value)]

KeepIndices(obj, key) == SelectSeq([i \in DOMAIN obj.keys |-> i], LAMBDA i : obj.keys[i] # key)

(* del obj[key] / obj.pop(key) *)
RemoveKey(obj, key) ==
    [obj EXCEPT !.keys = [j \in DOMAIN KeepIndices(obj, key) |-> obj.keys[KeepIndices(obj, key)[j]]],
                !.kids = [j \in DOMAIN KeepIndices(obj, key) |-> obj.kids[KeepIndices(obj, key)[j]]]]

TypeNode(name) == Str(<<name>>)

Typed(name) == Obj(<<"type">>, <<TypeNode(name)>>)

(* schema.get("type") as a string, "" for none *)
TypeName(schema) ==
    IF HasKey(schema, "type") /\ Lookup(schema, "type").v # <<>>
    THEN Lookup(schema, "type").v[Len(Lookup(schema, "type").v)]
    ELSE ""

(* The schema names of the documents, and what the generators make of them:
   Container_Inner_ collapses to ContainerInner, a namespaced name to one
   PascalCase word, and only chift_mcp/tools/generator.py takes out "-" *)
ClassNames == {"Invoice", "ChiftPage_Invoice_", "ProductItem-Input",
               "backbone_common__models__common__Item", "BoolParam", "array"}

chift_mcp_transform_class_name(class_name) ==
    CASE class_name = "ChiftPage_Invoice_" -> "ChiftPageInvoice"
      [] class_name = "ProductItem-Input" -> "ProductItemInput"
      [] class_name = "backbone_common__models__common__Item" -> "BackboneCommonModelsCommonItem"
      [] OTHER -> class_name

tools_transform_class_name(class_name) ==
    CASE class_name = "ChiftPage_Invoice_" -> "ChiftPageInvoice"
      [] class_name = "backbone_common__models__common__Item" -> "BackboneCommonModelsCommonItem"
      [] OTHER -> class_name

transform_class_name(impl, class_name) ==
    IF impl = "chift_mcp.tools.generator" THEN chift_mcp_transform_class_name(class_name)
    ELSE tools_transform_class_name(class_name)

(* the `$ref` branch of _clean_schema_refs, on the copy: the reference gives
   way to the type it names *)
RefToType(impl, cleaned) ==
    IF HasKey(cleaned, "$ref")
    THEN SetKey(RemoveKey(cleaned, "$ref"), "type",
                TypeNode(transform_class_name(impl, SchemaName(Lookup(cleaned, "$ref").v))))
    ELSE cleaned

CleansItems(cleaned) == TypeName(cleaned) = "array" /\ HasKey(cleaned, "items")

(* _clean_schema_refs(schema): what it returns *)
RECURSIVE clean_schema_refs(_, _)
clean_schema_refs(impl, schema) ==
    LET c1 == RefToType(impl, schema)
        c2 == IF CleansItems(c1)
              THEN SetKey(c1, "items", clean_schema_refs(impl, Lookup(c1, "items")))
              ELSE c1
    IN IF HasKey(c2, "properties")
       THEN SetKey(c2, "properties",
                   [Lookup(c2, "properties") EXCEPT !.kids =
                       [i \in DOMAIN Lookup(c2, "properties").kids |->
                           clean_schema_refs(impl, Lookup(c2, "properties").kids[i])]])
       ELSE c2

(* A fault the idempotence claim must exclude: the reference of a property is
   popped from the document's own object and the type is set on the copy only *)
StoredPropertyPopped(impl, prop) == RemoveKey(prop, "$ref")

(* cleaned["properties"][key] = clean(prop): `cleaned` is a shallow copy, so
   its properties dict is the one of the document and the assignment lands in
   the document *)
StoredProperty(impl, prop) == clean_schema_refs(impl, prop)

(* _clean_schema_refs(schema): the schema object of the document after the
   call.  The top-level keys are untouched (they are changed on the copy), the
   items object is the one the nested call worked on, the properties hold
   what the nested calls returned *)
RECURSIVE schema_after_clean(_, _)
schema_after_clean(impl, schema) ==
    LET c1 == RefToType(impl, schema)
        m1 == IF CleansItems(c1)
              THEN SetKey(schema, "items", schema_after_clean(impl, Lookup(schema, "items")))
              ELSE schema
    IN IF HasKey(schema, "properties")
       THEN SetKey(m1, "properties",
                   [Lookup(schema, "properties") EXCEPT !.kids =
                       [i \in DOMAIN Lookup(schema, "properties").kids |->
                           StoredProperty(impl, Lookup(schema, "properties").kids[i])]])
       ELSE m1

(* clean(schema) if schema else None *)
CleanedOrNone(impl, schema) ==
    IF IsTruthy(schema) THEN clean_schema_refs(impl, schema) ELSE NoneNode

AfterCleanOrSame(impl, schema) ==
    IF IsTruthy(schema) THEN schema_after_clean(impl, schema) ELSE schema

(* _extract_response_schema: the first of 200, 201, 202, 204 the operation
   declares; 204 gives a boolean schema *)
SuccessCodes == <<"200", "201", "202", "204">>

Declares(responses, code) == \E i \in DOMAIN responses : responses[i].status = code

FirstSuccess(responses) ==
    CHOOSE k \in DOMAIN SuccessCodes :
        /\ Declares(responses, SuccessCodes[k])
        /\ \A j \in 1..(k - 1) : ~Declares(responses, SuccessCodes[j])

ResponseIndex(responses) ==
    CHOOSE i \in DOMAIN responses : responses[i].status = SuccessCodes[FirstSuccess(responses)]

HasSuccess(responses) == \E k \in DOMAIN SuccessCodes : Declares(responses, SuccessCodes[k])

extract_response_schema(responses) ==
    IF ~HasSuccess(responses) THEN NoneNode
    ELSE IF SuccessCodes[FirstSuccess(responses)] = "204" THEN Typed("boolean")
    ELSE responses[ResponseIndex(responses)].schema

(* _resolve_schema_type / the allOf branch of _extract_parameters *)
resolve_schema_type(schema) ==
    IF /\ HasKey(schema, "allOf")
       /\ Lookup(schema, "allOf").kids # <<>>
       /\ HasKey(Lookup(schema, "allOf").kids[1], "$ref")
    THEN SchemaName(Lookup(Lookup(schema, "allOf").kids[1], "$ref").v)
    ELSE IF HasKey(schema, "type") THEN TypeName(schema) ELSE "string"

ParamInfo(param) ==
    [name |-> param.name, required |-> param.required,
     type |-> resolve_schema_type(param.schema)]

(* _extract_parameters: the path and the query parameters, each in the order
   of the document; parameters in other places are left out *)
extract_parameters(parameters) ==
    LET infos == [i \in DOMAIN parameters |-> ParamInfo(parameters[i])]
        in_place(place) ==
            SelectSeq([i \in DOMAIN parameters |-> i], LAMBDA i : parameters[i].place = place)
    IN [path |-> [j \in DOMAIN in_place("path") |-> infos[in_place("path")[j]]],
        query |-> [j \in DOMAIN in_place("query") |-> infos[in_place("query")[j]]]]

(* detailed_info: the nested dict vertical -> model -> sdk_method -> info.
   `models` holds the (vertical, model) pairs in the order setdefault created
   them, `entries` the infos in the order their keys were first assigned *)
EmptyInfo == [models |-> <<>>, entries |-> <<>>]

HasEntry(result, vertical, model, sdk_method) ==
    \E i \in DOMAIN result.entries :
        /\ result.entries[i].vertical = vertical
        /\ result.entries[i].model = model
        /\ result.entries[i].sdk_method = sdk_method

(* result.setdefault(vertical, {}).setdefault(model, {}) *)
SetDefault(result, vertical, model) ==
    IF \E i \in DOMAIN result.models : result.models[i] = <<vertical, model>>
    THEN result
    ELSE [result EXCEPT !.models = Append(@, <<vertical, model>>)]

(* result[vertical][model][sdk_method] = info *)
Put(result, vertical, model, sdk_method, info) ==
    IF HasEntry(result, vertical, model, sdk_method)
    THEN [result EXCEPT !.entries =
            [i \in DOMAIN result.entries |->
                IF /\ result.entries[i].vertical = vertical
                   /\ result.entries[i].model = model
                   /\ result.entries[i].sdk_method = sdk_method
                THEN [result.entries[i] EXCEPT !.info = info]
                ELSE result.entries[i]]]
    ELSE [result EXCEPT !.entries =
            Append(@, [vertical |-> vertical, model |-> model,
                       sdk_method |-> sdk_method, info |-> info])]

(* http_method.upper() *)
Upper(http_method) ==
    CASE http_method = "get" -> "GET" [] http_method = "post" -> "POST"
      [] http_method = "put" -> "PUT" [] http_method = "patch" -> "PATCH"
      [] http_method = "delete" -> "DELETE" [] OTHER -> http_method

NoCall == [vertical |-> <<>>, model |-> "", method_name |-> "", args |-> <<>>]

NoParameters == [path |-> <<>>, query |-> <<>>]

(* _build_method_info / the dict literal of get_detailed_endpoint_info; the
   endpoint parser keeps endpoint, method and description only *)
build_method_info(impl, path, http_method, method_data) ==
    IF impl = "openapi_spec.parser"
    THEN [endpoint |-> path, method |-> Upper(http_method),
          description |-> method_data.description,
          operation_id |-> <<>>, parameters |-> NoParameters,
          request_schema |-> NoneNode, response_schema |-> NoneNode,
          sdk_call |-> NoCall]
    ELSE [endpoint |-> path, method |-> Upper(http_method),
          description |-> method_data.description,
          operation_id |-> method_data.operationId,
          parameters |-> extract_parameters(method_data.parameters),
          request_schema |-> CleanedOrNone(impl, method_data.requestBody),
          response_schema |->
              CleanedOrNone(impl, extract_response_schema(method_data.responses)),
          sdk_call |-> NoCall]

(* the inner loop: the keys of one path item, in the order of the document *)
RECURSIVE ClassifyMethods(_, _, _, _, _, _)
ClassifyMethods(impl, result, path, pair, path_data, k) ==
    IF k > Len(path_data) THEN result
    ELSE IF path_data[k].key \notin HttpMethods
    THEN ClassifyMethods(impl, result, path, pair, path_data, k + 1)
    ELSE ClassifyMethods(impl,
            Put(result, pair.vertical, pair.model,
                http_to_sdk_method(impl, path_data[k].key, path),
                build_method_info(impl, path, path_data[k].key, path_data[k].data)),
            path, pair, path_data, k + 1)

(* _extract_detailed_info / get_detailed_endpoint_info / parse_openapi_endpoints *)
RECURSIVE ClassifyPaths(_, _, _, _)
ClassifyPaths(impl, result, paths, i) ==
    IF i > Len(paths) THEN result
    ELSE LET pair == VerticalModel(impl, paths[i].path)
         IN IF ~pair.matched
            THEN ClassifyPaths(impl, result, paths, i + 1)
            ELSE ClassifyPaths(impl,
                    ClassifyMethods(impl, SetDefault(result, pair.vertical, pair.model),
                                    paths[i].path, pair, paths[i].path_data, 1),
                    paths, i + 1)

extract_detailed_info(impl, paths) == ClassifyPaths(impl, EmptyInfo, paths, 1)

(* The document after a run: _clean_schema_refs has worked on the request and
   response schemas of every operation it was handed *)
CleanedResponses(impl, responses) ==
    IF HasSuccess(responses) /\ SuccessCodes[FirstSuccess(responses)] # "204"
    THEN [i \in DOMAIN responses |->
            IF i = ResponseIndex(responses)
            THEN [responses[i] EXCEPT !.schema = AfterCleanOrSame(impl, @)]
            ELSE responses[i]]
    ELSE responses

MethodDataAfter(impl, method_data) ==
    [method_data EXCEPT !.requestBody = AfterCleanOrSame(impl, @),
                        !.responses = CleanedResponses(impl, @)]

PathsAfter(impl, paths) ==
    IF impl = "openapi_spec.parser" THEN paths
    ELSE [i \in DOMAIN paths |->
            IF ~VerticalModel(impl, paths[i].path).matched THEN paths[i]
            ELSE [paths[i] EXCEPT !.path_data =
                    [k \in DOMAIN paths[i].path_data |->
                        IF paths[i].path_data[k].key \in HttpMethods
                        THEN [paths[i].path_data[k] EXCEPT !.data = MethodDataAfter(impl, @)]
                        ELSE paths[i].path_data[k]]]]

(* _to_singular(model.capitalize()): the resource as the SDK object name *)
sdk_model(model) ==
    CASE model = "invoices" -> "Invoice"
      [] model = "product_categories" -> "Product_category"
      [] model = "consumer" -> "Consumer"
      [] OTHER -> model

(* name.endswith("_id") *)
EndsWithId(name) == name \in {"consumer_id", "invoice_id", "line_id"}

Arg(kind, name, query) == [kind |-> kind, name |-> name, query |-> query]

(* next(p for p in path_params if name != "consumer_id" and name.endswith("_id")) *)
IdCandidates(path_params) ==
    SelectSeq(path_params, LAMBDA q : q.name # "consumer_id" /\ EndsWithId(q.name))

PositionalIds(method_name, path_params) ==
    IF method_name \in {"get", "update", "delete"} /\ IdCandidates(path_params) # <<>>
    THEN <<IdCandidates(path_params)[1].name>>
    ELSE <<>>

(* A fault the invocation claim must exclude: the positional id is passed a
   second time by keyword *)
KeywordPathParamsAll(path_params, pos_args) ==
    SelectSeq(path_params, LAMBDA q : q.name # "consumer_id")

(* the path parameters passed by keyword: not consumer_id, not the positional *)
KeywordPathParams(path_params, pos_args) ==
    SelectSeq(path_params,
              LAMBDA q : q.name # "consumer_id" /\ q.name \notin Range(pos_args))

(* _generate_call_string, the same in both generators: the arguments of
   consumer.vertical.Model.method(...) in their order *)
generate_call_string(vertical, model, method_name, details) ==
    LET path_params == details.parameters.path
        query_params == details.parameters.query
        has_body == details.request_schema # NoneNode
        pos_args == PositionalIds(method_name, path_params)
        kw_path == KeywordPathParams(path_params, pos_args)
    IN [vertical |-> vertical, model |-> model, method_name |-> method_name,
        args |->
            [i \in DOMAIN pos_args |-> Arg("positional", pos_args[i], <<>>)]
            \o (IF has_body /\ method_name \in {"create", "update"}
                THEN <<Arg("keyword", "data", <<>>)>> ELSE <<>>)
            \o [i \in DOMAIN kw_path |-> Arg("keyword", kw_path[i].name, <<>>)]
            \o (IF query_params # <<>>
                THEN <<Arg("params", "params",
                           [i \in DOMAIN query_params |-> query_params[i].name])>>
                ELSE <<>>)]

(* _add_sdk_method_calls *)
add_sdk_method_calls(endpoint_info) ==
    [endpoint_info EXCEPT !.entries =
        [i \in DOMAIN endpoint_info.entries |->
            [endpoint_info.entries[i] EXCEPT !.info.sdk_call =
                generate_call_string(endpoint_info.entries[i].vertical,
                                     sdk_model(endpoint_info.entries[i].model),
                                     endpoint_info.entries[i].sdk_method,
                                     endpoint_info.entries[i].info)]]]

(* __EXCLUDED_OPERATIONS of chift_mcp/tools/generator.py *)
chift_mcp_EXCLUDED_OPERATIONS ==
    { <<"banking", "get", "account", "transactions">>,
      <<"datastores", "create", "consumer", "datastoredata">>,
      <<"syncs", "get", "syncconsumer">>,
      <<"datastores", "update", "consumer", "datastoredata">>,
      <<"datastores", "delete", "consumer", "datastoredata">>,
      <<"banking", "get", "account", "counterparts">>,
      <<"banking", "get", "accounts">>,
      <<"banking", "get", "financial", "institutions">> }

(* __EXCLUDED_OPERATIONS of tools/generator.py *)
tools_EXCLUDED_OPERATIONS ==
    chift_mcp_EXCLUDED_OPERATIONS \cup
    { <<"pos", "get", "product", "categories">>,
      <<"invoicing", "get", "invoices">>,
      <<"invoicing", "post", "invoices">>,
      <<"invoicing", "post", "products">>,
      <<"ecommerce", "get", "products">>,
      <<"ecommerce", "get", "product">>,
      <<"accounting", "create", "ledger", "account">>,
      <<"accounting", "create", "journal">> }

EXCLUDED_OPERATIONS(impl) ==
    IF impl = "chift_mcp.tools.generator" THEN chift_mcp_EXCLUDED_OPERATIONS
    ELSE tools_EXCLUDED_OPERATIONS

is_primitive_type(type_name) ==
    type_name \in {"string", "integer", "boolean", "number", "array", "object"}

(* the rewriting of a type name in extract_type: Container[Inner] collapses,
   and chift_mcp/tools/generator.py takes out "-" *)
import_name(impl, type_str) ==
    CASE type_str = "ChiftPage[Invoice]" -> "ChiftPageInvoice"
      [] type_str = "ProductItem-Input" /\ impl = "chift_mcp.tools.generator" -> "ProductItemInput"
      [] OTHER -> type_str

item_import_name(impl, type_str) ==
    IF type_str = "ProductItem-Input" /\ impl = "chift_mcp.tools.generator"
    THEN "ProductItemInput" ELSE type_str

(* extract_type(schema) *)
extract_type(impl, schema) ==
    (IF HasKey(schema, "type") /\ ~is_primitive_type(TypeName(schema))
     THEN {import_name(impl, TypeName(schema))} ELSE {})
    \cup
    (IF /\ HasKey(schema, "items")
        /\ HasKey(Lookup(schema, "items"), "type")
        /\ ~is_primitive_type(TypeName(Lookup(schema, "items")))
     THEN {item_import_name(impl, TypeName(Lookup(schema, "items")))} ELSE {})

OperationTypes(impl, operation) ==
    (IF IsTruthy(operation.response_schema)
     THEN extract_type(impl, operation.response_schema) ELSE {})
    \cup (IF IsTruthy(operation.request_schema)
          THEN extract_type(impl, operation.request_schema) ELSE {})
    \cup { q.type : q \in { r \in Range(operation.parameters.path)
                                  \cup Range(operation.parameters.query) :
                              r.type # "" /\ ~is_primitive_type(r.type) } }

(* A fault the denylist claim must exclude: the types are collected from
   every operation, the excluded ones too *)
ImportedIgnoringDenylist(impl, operation) == TRUE

(* the test extract_all_types makes before it reads an operation's types *)
Imported(impl, operation) == operation.operation_id \notin EXCLUDED_OPERATIONS(impl)

(* extract_all_types *)
extract_all_types(impl, api_schema) ==
    UNION { OperationTypes(impl, api_schema.entries[i].info) :
              i \in { j \in DOMAIN api_schema.entries :
                        Imported(impl, api_schema.entries[j].info) } }

(* get_python_type *)
get_python_type(openapi_type) ==
    CASE openapi_type = "string" -> "str" [] openapi_type = "integer" -> "int"
      [] openapi_type = "boolean" -> "bool" [] openapi_type = "number" -> "float"
      [] openapi_type = "object" -> "dict" [] openapi_type = "array" -> "list"
      [] OTHER -> openapi_type

(* get_return_type *)
get_return_type(schema) ==
    IF ~IsTruthy(schema) THEN "None"
    ELSE IF HasKey(schema, "type") THEN get_python_type(TypeName(schema))
    ELSE "Any"

Signed(name, type, optional) == [name |-> name, type |-> type, optional |-> optional]

(* content.count("def "): what one piece of text adds to it *)
CountDef(text) == IF text = "undef values" THEN 1 ELSE 0

(* generate_method(operation) for an operation that is not excluded: the name
   after `def`, the parameters in the order of the signature, the return type
   and the call of the body; `defs` is how often "def " occurs in its text *)
MethodOf(operation) ==
    LET path_params == SelectSeq(operation.parameters.path,
                                 LAMBDA q : q.name # "consumer_id")
        required == SelectSeq(operation.parameters.query, LAMBDA q : q.required)
        optional == SelectSeq(operation.parameters.query, LAMBDA q : ~q.required)
        has_data == IsTruthy(operation.request_schema)
                    /\ operation.method \in {"POST", "PUT", "PATCH"}
    IN [name |-> operation.operation_id,
        params |->
            <<Signed("consumer_id", "str", FALSE)>>
            \o [i \in DOMAIN path_params |->
                   Signed(path_params[i].name, get_python_type(path_params[i].type), FALSE)]
            \o (IF has_data
                THEN <<Signed("data", get_return_type(operation.request_schema), FALSE)>>
                ELSE <<>>)
            \o [i \in DOMAIN required |->
                   Signed(required[i].name, get_python_type(required[i].type), FALSE)]
            \o [i \in DOMAIN optional |->
                   Signed(optional[i].name, get_python_type(optional[i].type), TRUE)],
        return_type |-> get_return_type(operation.response_schema),
        sdk_call |-> operation.sdk_call,
        defs |-> 1 + CountDef(operation.description)]

(* the iteration of the nested dict: verticals in the order they were
   created, the models of a vertical in theirs, the methods of a model in
   theirs *)
VerticalOrder(result, i) ==
    CHOOSE k \in DOMAIN result.models : result.models[k][1] = result.entries[i].vertical

ModelOrder(result, i) ==
    CHOOSE k \in DOMAIN result.models :
        result.models[k] = <<result.entries[i].vertical, result.entries[i].model>>

Before(result, i, j) ==
    \/ VerticalOrder(result, i) < VerticalOrder(result, j)
    \/ /\ VerticalOrder(result, i) = VerticalOrder(result, j)
       /\ \/ ModelOrder(result, i) < ModelOrder(result, j)
          \/ ModelOrder(result, i) = ModelOrder(result, j) /\ i < j

Rank(result, i) == Cardinality({j \in DOMAIN result.entries : Before(result, j, i)}) + 1

Operations(result) ==
    [r \in DOMAIN result.entries |->
        result.entries[CHOOSE i \in DOMAIN result.entries : Rank(result, i) = r].info]

(* generate_file_content: the methods of the operations generate_method does
   not answer "" for *)
generate_file_content(impl, api_schema) ==
    LET emitted == SelectSeq(Operations(api_schema),
                             LAMBDA o : o.operation_id \notin EXCLUDED_OPERATIONS(impl))
    IN [i \in DOMAIN emitted |-> MethodOf(emitted[i])]

RECURSIVE SumDefs(_)
SumDefs(methods) == IF methods = <<>> THEN 0 ELSE methods[1].defs + SumDefs(Tail(methods))

(* run(): the enriched endpoint info, and toolkit.py as its import list, its
   methods and the number generate_toolkit prints *)
run(impl, paths) ==
    LET detailed_info == extract_detailed_info(impl, paths)
    IN IF impl = "openapi_spec.parser"
       THEN [info |-> detailed_info, imports |-> {}, methods |-> <<>>, count |-> 0]
       ELSE LET enriched_info == add_sdk_method_calls(detailed_info)
                content == generate_file_content(impl, enriched_info)
            IN [info |-> enriched_info,
                imports |-> extract_all_types(impl, enriched_info),
                methods |-> content,
                count |-> SumDefs(content)]

(* ChiftMCPMapper of tools/chift_mapper.py.  The classes it reflects on are
   those of the SDK modules chift.models.consumers.<area>: the class name, and
   the chift_vertical and chift_model the class declares *)
SdkClasses ==
    { [area |-> "accounting", name |-> "Invoice",
       chift_vertical |-> "accounting", chift_model |-> "invoices"],
      [area |-> "pos", name |-> "ProductCategory",
       chift_vertical |-> "pos", chift_model |-> "product_categories"] }

CHIFT_METHOD_NAMES == {"get", "all", "create", "update", "delete"}

(* str.lower() *)
Lower(word) ==
    CASE word = "Invoice" -> "invoice"
      [] word = "ProductCategory" -> "productcategory"
      [] OTHER -> word

(* create_mcp_tools: tool_name = f"{area}_{class_name}_{method_name}", lowered *)
ToolOf(class, method_name) ==
    [name |-> <<Lower(class.area), Lower(class.name), Lower(method_name)>>,
     area |-> class.area, class_name |-> class.name, method |-> method_name]

create_mcp_tools ==
    /\ ~mapper.done
    /\ mapper' = [done |-> TRUE,
                  tools |-> {ToolOf(c, m) : c \in SdkClasses, m \in CHIFT_METHOD_NAMES}]
    /\ UNCHANGED <<parser, generated>>

----------------------------------------------------------------------------
(* The documents the generators are run on *)

MaxRuns == 2

Scoped4(scope, vertical, resource) ==
    <<Lit("consumers"), Par(scope), Lit(vertical), Lit(resource)>>

CollectionPath == Scoped4("consumer_id", "accounting", "invoices")

ItemPath == CollectionPath \o <<Par("invoice_id")>>

PathSet ==
    { CollectionPath, ItemPath,
      ItemPath \o <<Lit("payments")>>,
      CollectionPath \o << <<>> >>,
      Scoped4("consumer_id", "pos", "product-categories"),
      Scoped4("id", "accounting", "invoices"),
      <<Lit("consumers"), Par("consumer_id")>>,
      <<Lit("syncs")>> }

KeyLists == { <<"get", "post">>, <<"put", "patch", "options">>, <<"get", "delete">> }

Parameter(name, place, required, schema) ==
    [name |-> name, place |-> place, required |-> required, schema |-> schema]

PathParameter(name) == Parameter(name, "path", TRUE, Typed("string"))

ParameterLists ==
    { <<>>,
      <<PathParameter("consumer_id"), PathParameter("invoice_id")>>,
      <<PathParameter("consumer_id"), PathParameter("folder"),
        PathParameter("invoice_id"), PathParameter("line_id")>>,
      <<PathParameter("consumer_id"), PathParameter("invoice_id"),
        Parameter("limit", "query", FALSE, Typed("integer")),
        Parameter("active", "query", TRUE,
                  Obj(<<"allOf">>, <<List(<<Ref(SchemaPath("BoolParam"))>>)>>)),
        Parameter("trace", "header", FALSE, EmptyObj)>> }

RequestBodies ==
    { NoneNode, EmptyObj,
      Ref(SchemaPath("Invoice")),
      Obj(<<"type", "properties">>,
          <<TypeNode("object"),
            Obj(<<"line", "page">>,
                <<Ref(SchemaPath("ProductItem-Input")),
                  Obj(<<"type", "items">>,
                      <<TypeNode("array"), Ref(SchemaPath("ChiftPage_Invoice_"))>>)>>)>>),
      Obj(<<"properties">>,
          <<Obj(<<"rows">>,
                <<Obj(<<"$ref", "items">>,
                      <<Str(SchemaPath("array")),
                        Obj(<<"$ref", "properties">>,
                            <<Str(SchemaPath("Invoice")),
                              Obj(<<"owner">>,
                                  <<Ref(SchemaPath("ProductItem-Input"))>>)>>)>>)>>)>>) }

Response(status, schema) == [status |-> status, schema |-> schema]

ResponseLists ==
    { <<>>,
      <<Response("204", NoneNode)>>,
      <<Response("200", Ref(SchemaPath("ChiftPage_Invoice_")))>>,
      <<Response("404", Ref(SchemaPath("Invoice"))),
        Response("201",
                 Obj(<<"type", "items">>,
                     <<TypeNode("array"),
                       Obj(<<"$ref", "properties">>,
                           <<Str(SchemaPath("backbone_common__models__common__Item")),
                             Obj(<<"kind">>, <<Ref(SchemaPath("array"))>>)>>)>>))>> }

(* operationIds: one no generator excludes, one both exclude, one only
   tools/generator.py excludes *)
OperationIds ==
    { <<"accounting", "get", "invoices">>, <<"banking", "get", "accounts">>,
      <<"invoicing", "get", "invoices">> }

Descriptions == {"List invoices", "undef values"}

MethodData(operationId, description, parameters, requestBody, responses) ==
    [operationId |-> operationId, description |-> description,
     parameters |-> parameters, requestBody |-> requestBody, responses |-> responses]

PlainData ==
    MethodData(<<"accounting", "get", "invoices">>, "List invoices",
               <<PathParameter("consumer_id")>>, NoneNode, <<>>)

PathItem(path, path_data) == [path |-> path, path_data |-> path_data]

Keyed(key, data) == [key |-> key, data |-> data]

(* Documents of several paths, every operation plain *)
PlainItems ==
    { PathItem(p, [k \in DOMAIN ks |-> Keyed(ks[k], PlainData)]) :
        p \in PathSet, ks \in KeyLists }

DistinctPaths(paths) == \A i, j \in DOMAIN paths : i # j => paths[i].path # paths[j].path

PathDocuments ==
    { paths \in UNION {[1..n -> PlainItems] : n \in 1..MaxPaths} : DistinctPaths(paths) }

(* Documents of one operation, of every shape *)
OperationDocuments ==
    { << PathItem(p, <<Keyed(k, MethodData(o, d, ps, b, rs))>>) >> :
        p \in {CollectionPath, ItemPath}, k \in HttpMethods,
        o \in OperationIds, d \in Descriptions, ps \in ParameterLists,
        b \in RequestBodies, rs \in ResponseLists }

(* Documents of two operations on one path *)
PairDocuments ==
    { << PathItem(CollectionPath,
                  << Keyed("get", MethodData(o1, "List invoices", <<>>, NoneNode, rs)),
                     Keyed("post", MethodData(o2, "undef values", <<>>, b, <<>>)) >>) >> :
        o1 \in OperationIds, o2 \in OperationIds, b \in RequestBodies, rs \in ResponseLists }

NoParser == [impl |-> "chift_mcp.tools.generator", file |-> <<>>,
             loaded |-> FALSE, openapi_data |-> <<>>]

NotMapped == [done |-> FALSE, tools |-> {}]

(* _load_data: the document is read from the file once per parser; the
   endpoint parser reads it on every call *)
LoadedData ==
    IF parser.loaded /\ parser.impl \in Generators THEN parser.openapi_data ELSE parser.file

(* OpenAPIParser.run() / parse_openapi_endpoints() *)
run_parser ==
    /\ Len(generated) < MaxRuns
    /\ generated' = Append(generated, run(parser.impl, LoadedData))
    /\ parser' = IF parser.impl \in Generators
                 THEN [parser EXCEPT !.loaded = TRUE,
                                     !.openapi_data = PathsAfter(parser.impl, LoadedData)]
                 ELSE parser
    /\ UNCHANGED mapper

InitGenerator ==
    /\ parser \in
          {[NoParser EXCEPT !.impl = impl, !.file = paths] :
              impl \in Implementations, paths \in PathDocuments}
          \cup
          {[NoParser EXCEPT !.impl = impl, !.file = paths] :
              impl \in Generators, paths \in OperationDocuments \cup PairDocuments}
    /\ generated = <<>>
    /\ mapper = NotMapped

FrozenGenerator ==
    /\ parser = NoParser
    /\ generated = <<>>
    /\ mapper = NotMapped

----------------------------------------------------------------------------
(* create_wrapper_without_consumer_id of chift_mcp/utils/importer.py *)

MaxParams == 3

MaxArgs == 2

(* inspect.Parameter: name, kind, default (or none), annotation *)
ParamKinds == <<"POSITIONAL_ONLY", "POSITIONAL_OR_KEYWORD", "KEYWORD_ONLY">>

KindRank(kind) == CHOOSE i \in DOMAIN ParamKinds : ParamKinds[i] = kind

WrapperParamNames == {"consumer_id", "invoice_id", "limit"}

Annotation == [n \in WrapperParamNames |-> IF n = "limit" THEN "int" ELSE "str"]

Parameters ==
    { [name |-> n, kind |-> k, has_default |-> d, annotation |-> Annotation[n]] :
        n \in WrapperParamNames, k \in Range(ParamKinds), d \in BOOLEAN }

(* The parameter lists Python accepts in a def: distinct names, kinds in
   order, no positional parameter without a default after one with a default *)
ValidParameters(params) ==
    /\ \A i, j \in DOMAIN params : i < j =>
          /\ params[i].name # params[j].name
          /\ KindRank(params[i].kind) <= KindRank(params[j].kind)
          /\ (params[i].has_default /\ params[j].kind # "KEYWORD_ONLY") => params[j].has_default

Signatures ==
    {params \in UNION {[1..n -> Parameters] : n \in 0..MaxParams} : ValidParameters(params)}

(* A function of the toolkit: its signature; what it returns stands for what
   it was called with *)
ArgValues == {"x", "y"}

PositionalArgs == UNION {[1..n -> ArgValues] : n \in 0..MaxArgs}

KeywordArgs == {{}, {"limit"}, {"invoice_id"}, {"consumer_id"}, {"invoice_id", "limit"}}

TypeError == [raised |-> TRUE, bound |-> <<>>]

Positional(params) == SelectSeq(params, LAMBDA q : q.kind # "KEYWORD_ONLY")

(* The binding of a call of func with args and kwargs to its parameters: the
   value each parameter receives ("default" for one left to its default, "kw"
   for one passed by keyword), or TypeError *)
BoundValue(params, i, args, kwargs) ==
    IF params[i].kind # "KEYWORD_ONLY" /\ i <= Len(args) THEN args[i]
    ELSE IF params[i].name \in kwargs THEN "kw"
    ELSE "default"

CallFunc(params, args, kwargs) ==
    IF \/ Len(args) > Len(Positional(params))
       \/ \E k \in kwargs : ~ \E i \in DOMAIN params :
             /\ params[i].name = k
             /\ params[i].kind # "POSITIONAL_ONLY"
             /\ ~(params[i].kind # "KEYWORD_ONLY" /\ i <= Len(args))
       \/ \E i \in DOMAIN params :
             BoundValue(params, i, args, kwargs) = "default" /\ ~params[i].has_default
    THEN TypeError
    ELSE [raised |-> FALSE,
          bound |-> [i \in DOMAIN params |-> BoundValue(params, i, args, kwargs)]]

NotWrapped == [state |-> "none", params |-> <<>>, consumer_id |-> NoId,
               is_func |-> FALSE, signature |-> <<>>,
               args |-> <<>>, kwargs |-> {}, returned |-> TypeError]

(* A fault the wrapper claim must exclude: the consumer id is handed to func
   behind the caller's positional arguments *)
WrapperCallAppends(params, consumer_id, args, kwargs) ==
    CallFunc(params, args \o <<consumer_id>>, kwargs)

(* wrapper: return func(consumer_id, followed by args and kwargs) *)
WrapperCall(params, consumer_id, args, kwargs) ==
    CallFunc(params, <<consumer_id>> \o args, kwargs)

(* create_wrapper_without_consumer_id(func, consumer_id) *)
create_wrapper_without_consumer_id ==
    /\ wrapper.state = "given"
    /\ wrapper' =
         IF wrapper.params = <<>> \/ wrapper.params[1].name # "consumer_id"
         THEN [wrapper EXCEPT !.state = "made", !.is_func = TRUE,
                              !.signature = wrapper.params]
         ELSE [wrapper EXCEPT !.state = "made", !.is_func = FALSE,
                              !.signature = Tail(wrapper.params)]

(* A call of what create_wrapper_without_consumer_id returned *)
call_result(args, kwargs) ==
    /\ wrapper.state = "made"
    /\ wrapper' =
         [wrapper EXCEPT !.state = "called", !.args = args, !.kwargs = kwargs,
                         !.returned =
                             IF wrapper.is_func
                             THEN CallFunc(wrapper.params, args, kwargs)
                             ELSE WrapperCall(wrapper.params, wrapper.consumer_id,
                                              args, kwargs)]

InitWrapper ==
    wrapper \in {[NotWrapped EXCEPT !.state = "given", !.params = ps, !.consumer_id = c] :
                    ps \in Signatures, c \in ConsumerIds}

FrozenWrapper == wrapper = NotWrapped

FrozenGen == FrozenWrapper /\ FrozenGenerator

----------------------------------------------------------------------------
(* Specifications *)

(* One invocation of the customised tool, for every tool and customizer *)
Init == InitTools /\ FrozenMiddleware /\ FrozenBuild /\ FrozenRefs /\ FrozenGen

Customize ==
    /\ \E inherits \in BOOLEAN : customize_tool(inherits)
    /\ UNCHANGED <<mwVars, buildVars, refVars, genVars>>

InvokeOne ==
    /\ \E lim \in Limits, cx \in Contexts, kw \in CallerKwargs : Invoke("t1", lim, cx, kw)
    /\ UNCHANGED <<mwVars, buildVars, refVars, genVars>>

ResumeOne ==
    /\ \E sc \in StructuredContents(Delivered("t1")) : Resume("t1", sc)
    /\ UNCHANGED <<mwVars, buildVars, refVars, genVars>>

CancelOne == Cancel("t1") /\ UNCHANGED <<mwVars, buildVars, refVars, genVars>>

Next == Customize \/ InvokeOne \/ ResumeOne \/ CancelOne

Spec == Init /\ [][Next]_vars

(* One invocation followed to its end: the upstream answers every forward and
   the event loop resumes the task that awaits it *)
AnswerOne ==
    /\ \E sc \in StructuredContents(Delivered("t1")) : Answer("t1", sc)
    /\ UNCHANGED <<mwVars, buildVars, refVars, genVars>>

LoopBodyOne == LoopBody("t1") /\ UNCHANGED <<mwVars, buildVars, refVars, genVars>>

NextLoop == Customize \/ InvokeOne \/ AnswerOne \/ LoopBodyOne

SpecLoop == Init /\ [][NextLoop]_vars /\ WF_vars(AnswerOne) /\ WF_vars(LoopBodyOne)

(* Concurrent invocations of one customised tool, each on its own task *)
ConcLimits == {2, LimitLe}

InitConc == FrozenTools /\ FrozenMiddleware /\ FrozenBuild /\ FrozenRefs /\ FrozenGen

InvokeConc ==
    /\ \E t \in Tasks, lim \in ConcLimits : Invoke(t, lim, "c1", NoRequest)
    /\ UNCHANGED <<mwVars, buildVars, refVars, genVars>>

ResumeConc ==
    /\ \E t \in Tasks : \E sc \in StructuredContents(Delivered(t)) : Resume(t, sc)
    /\ UNCHANGED <<mwVars, buildVars, refVars, genVars>>

CancelConc == (\E t \in Tasks : Cancel(t)) /\ UNCHANGED <<mwVars, buildVars, refVars, genVars>>

NextConc == Customize \/ InvokeConc \/ ResumeConc \/ CancelConc

SpecConc == InitConc /\ [][NextConc]_vars

(* Requests through the middleware chain *)
InitMw == FrozenTools /\ InitMiddleware /\ FrozenBuild /\ FrozenRefs /\ FrozenGen

ReceiveAny ==
    /\ \E m \in {"tools/list", "tools/call"}, hc \in BOOLEAN, nm \in ToolNames :
          Receive(m, hc, IF m = "tools/call" THEN nm ELSE "none")
    /\ UNCHANGED <<toolVars, buildVars, refVars, genVars>>

OnRequest == on_request /\ UNCHANGED <<toolVars, buildVars, refVars, genVars>>

ListTools == (\E ok \in BOOLEAN : on_list_tools(ok)) /\ UNCHANGED <<toolVars, buildVars, refVars, genVars>>

CallTool == on_call_tool /\ UNCHANGED <<toolVars, buildVars, refVars, genVars>>

NextMw == ReceiveAny \/ OnRequest \/ ListTools \/ CallTool

SpecMw == InitMw /\ [][NextMw]_vars

(* The registry build at startup *)
InitRegistry == FrozenTools /\ FrozenMiddleware /\ InitBuild /\ FrozenRefs /\ FrozenGen

ImportToolkit ==
    /\ \E ok \in BOOLEAN : import_toolkit_functions(ok)
    /\ UNCHANGED <<toolVars, mwVars, refVars, genVars>>

CustomizeTools == customize_tools /\ UNCHANGED <<toolVars, mwVars, refVars, genVars>>

NextRegistry == ImportToolkit \/ CustomizeTools

SpecRegistry == InitRegistry /\ [][NextRegistry]_vars

(* validate_config on every configuration *)
InitConfig == FrozenTools /\ FrozenMiddleware /\ InitValidate /\ FrozenRefs /\ FrozenGen

ValidateConfig == Validate /\ UNCHANGED <<toolVars, mwVars, refVars, genVars>>

NextConfig == ValidateConfig

SpecConfig == InitConfig /\ [][NextConfig]_vars

(* resolve_openapi_refs on every document; the call runs to its end on one
   thread, so a pending call of resolve_refs_recursive is always taken up *)
InitResolve == FrozenTools /\ FrozenMiddleware /\ FrozenBuild /\ InitRefs /\ FrozenGen

StartResolve == resolve_openapi_refs /\ UNCHANGED <<toolVars, mwVars, buildVars, genVars>>

ResolveStep == resolve_step /\ UNCHANGED <<toolVars, mwVars, buildVars, genVars>>

NextResolve == StartResolve \/ ResolveStep

SpecResolve == InitResolve /\ [][NextResolve]_vars

SpecResolveFair == SpecResolve /\ WF_vars(StartResolve) /\ WF_vars(ResolveStep)

(* create_wrapper_without_consumer_id on every function, and a call of what
   it returns *)
InitWrap ==
    /\ FrozenTools /\ FrozenMiddleware /\ FrozenBuild /\ FrozenRefs
    /\ InitWrapper /\ FrozenGenerator

CreateWrapper ==
    /\ create_wrapper_without_consumer_id
    /\ UNCHANGED <<toolVars, mwVars, buildVars, refVars, parser, generated, mapper>>

CallResult ==
    /\ \E args \in PositionalArgs, kwargs \in KeywordArgs : call_result(args, kwargs)
    /\ UNCHANGED <<toolVars, mwVars, buildVars, refVars, parser, generated, mapper>>

NextWrap == CreateWrapper \/ CallResult

SpecWrap == InitWrap /\ [][NextWrap]_vars

(* The generators run on every document, twice on the parser that keeps its
   document, and the reflection mapper beside them *)
InitGenerate ==
    /\ FrozenTools /\ FrozenMiddleware /\ FrozenBuild /\ FrozenRefs
    /\ FrozenWrapper /\ InitGenerator

RunParser == run_parser /\ UNCHANGED <<toolVars, mwVars, buildVars, refVars, wrapper>>

CreateMcpTools ==
    create_mcp_tools /\ UNCHANGED <<toolVars, mwVars, buildVars, refVars, wrapper>>

NextGenerate == RunParser \/ CreateMcpTools

SpecGenerate == InitGenerate /\ [][NextGenerate]_vars

----------------------------------------------------------------------------
(* Properties *)

Paginated(t) == built.paginate /\ task[t].pc # "idle"

(* The items a task has accumulated itself, in the order it fetched them *)
Accumulated(t) == Len(task[t].all_items)

InFetchOrder(seq) == seq = [j \in 1..Len(seq) |-> j]

(* A further forward was issued after the latest response *)
FetchedAgain(t) == task[t].nfetch = task[t].nresp + 1

(* C1: after each accumulated page the loop fetches again if and only if the
   accumulated count is below the reported total, the page was not empty and
   the accumulated count is below the limit; the returned list is the
   concatenation of the fetched pages in fetch order; the pages [1,2] and [3]
   of a total of 3 give [1,2,3] after exactly 2 fetches. *)
C1_LoopStopsAndConcatenates ==
    \A t \in Tasks :
        Paginated(t) =>
            /\ (task[t].nresp >= 1 /\ task[t].last.truthy) =>
                  (FetchedAgain(t) <=>
                      ~ \/ Accumulated(t) >= task[t].last.total
                        \/ task[t].last.n = 0
                        \/ Accumulated(t) >= task[t].limit)
            /\ task[t].pc = "done" =>
                  /\ task[t].result = task[t].all_items
                  /\ InFetchOrder(task[t].result)
            /\ (/\ task[t].limit >= 3
                /\ task[t].nresp = 2 /\ task[t].ntruthy = 2
                /\ Accumulated(t) = 3
                /\ task[t].last = [truthy |-> TRUE, n |-> 1, total |-> 3]) =>
                  /\ task[t].pc = "done"
                  /\ task[t].result = <<1, 2, 3>>
                  /\ task[t].nfetch = 2

(* C2: the list a pagination-flattened invocation returns has at most `limit`
   items. *)
C2_TruncatedToLimit ==
    \A t \in Tasks :
        (Paginated(t) /\ task[t].pc = "done") => Len(task[t].result) <= task[t].limit

(* The responses with content a task had read when it issued its latest
   forward: the loop returns only on a response with content *)
PagesReadBeforeLatestFetch(t) ==
    IF task[t].pc = "done" THEN task[t].ntruthy - 1 ELSE task[t].ntruthy

(* C3: concurrent invocations of one pagination-flattened tool do not disturb
   each other: the page each requests is one more than the pages it has read
   itself, its page size comes from its own limit, it stops on its own
   accumulated count and it returns its own pages. *)
C3_InvocationsIsolated ==
    \A t \in Tasks :
        (Paginated(t) /\ {"page", "size"} \subseteq built.hidden) =>
            /\ task[t].req.page = PagesReadBeforeLatestFetch(t) + 1
            /\ task[t].req.size = SizeFor(task[t].limit)
            /\ (task[t].nresp >= 1 /\ task[t].last.truthy) =>
                  (task[t].pc = "done" <=>
                      StopCond(Accumulated(t), task[t].last.total,
                               [j \in 1..task[t].last.n |-> j], task[t].limit))
            /\ task[t].pc = "done" => InFetchOrder(task[t].result)

(* C4: an invocation cancelled while a page fetch is outstanding issues no
   further page request (the cancelled fetch stays its last one), ends with a
   cancelled error and returns nothing, whatever it had accumulated. *)
C4_CancelAbortsLoop ==
    \A t \in Tasks :
        task[t].pc = "cancelled" =>
            /\ task[t].outcome = "CancelledError"
            /\ task[t].result = <<>>
            /\ task[t].nfetch = task[t].nresp + 1

(* C4 witness: a paginated invocation cancelled during its second fetch, one
   page already accumulated *)
C4_Witness ==
    \E t \in Tasks :
        /\ Paginated(t) /\ task[t].pc = "cancelled"
        /\ task[t].nfetch = 2 /\ Accumulated(t) >= 1

(* C5: the k-th fetch of a pagination-flattened invocation requests page k
   with page size min(limit, 100). *)
C5_KthFetchRequestsPageK ==
    \A t \in Tasks :
        Paginated(t) =>
            /\ task[t].req.page = task[t].nfetch
            /\ task[t].req.size = Min(task[t].limit, SizeCap)

(* C10: a tool transformed by hide-identity does not expose consumer_id, sends
   the consumer id of the request context upstream, and with no bound context
   fails with MissingContextError without any upstream call. *)
C10_IdentityFromContext ==
    (built.state = "built" /\ ChangeConsumerId) =>
        /\ "consumer_id" \notin ExposedParams
        /\ \A t \in Tasks :
              task[t].pc # "idle" =>
                  IF task[t].ctx = NoId
                  THEN task[t].nfetch = 0 /\ task[t].outcome = "MissingContextError"
                  ELSE task[t].req.consumer_id = task[t].ctx

(* C11: for a tool with consumer_id, page and size to which both transforms
   apply, customize_tool binds the consumer id first and adds the pagination
   to that: the tool it returns hides all three parameters and runs the fetch
   loop, and every fetch of every invocation, the first included, is issued
   with the consumer id already bound. *)
C11_IdBoundBeforeFirstFetch ==
    (built.state = "built" /\ ChangeConsumerId /\ ShouldPaginate) =>
        /\ built.made /\ built.paginate
        /\ built.hidden = {"consumer_id", "page", "size"}
        /\ built.default_cid = self.consumer_id
        /\ \A t \in Tasks :
              task[t].nfetch >= 1 =>
                  /\ task[t].req.consumer_id # NoId
                  /\ task[t].req.consumer_id = self.consumer_id

(* C11 witness: the loop of such a tool has issued its second fetch *)
C11_Witness ==
    /\ built.state = "built" /\ ChangeConsumerId /\ ShouldPaginate
    /\ \E t \in Tasks : task[t].nfetch = 2 /\ task[t].pc = "awaiting"

(* C13: pagination-flatten on a tool whose non-null output schema has no
   `items` property fails with a ValueError; on a schema {items, total} it
   exposes {result} only; on a null output schema it leaves the schema null. *)
C13_OutputSchemaFlattened ==
    (built.state = "built" /\ ShouldPaginate) =>
        IF tool.output_schema.is_null
        THEN built.error = "none" /\ built.output_schema = NullSchema
        ELSE IF "items" \in tool.output_schema.properties
        THEN built.error = "none" /\ built.output_schema = SchemaOf({"result"})
        ELSE built.error = "ValueError"

(* C30: whatever the upstream answers, an invocation of a pagination-flattened
   tool that has issued a fetch eventually returns. *)
C30_InvocationTerminates ==
    [](Paginated("t1") => <>(task["t1"].pc = "done"))

----------------------------------------------------------------------------
(* Properties of the middleware chain *)

Scoped == request.state_cid # NoId

ListDone == request.method = "tools/list" /\ request.phase = "done"

(* The tags the caller is entitled to: those of its connections whose family
   is a key of the table *)
Entitled ==
    { CONNECTION_TYPES[a] : a \in Range(upstream.connections) \cap DOMAIN CONNECTION_TYPES }

RegistryTool(nm) == CHOOSE tl \in Range(Registry) : tl.name = nm

IsSubsequenceOfRegistry(names) ==
    \A i, j \in DOMAIN names :
        i < j => \E a, b \in DOMAIN Registry :
                    a < b /\ Registry[a].name = names[i] /\ Registry[b].name = names[j]

(* The listing of exactly the tools of tag sets meeting `tags`, in registry order *)
ListsExactly(names, tags) ==
    /\ IsSubsequenceOfRegistry(names)
    /\ \A tl \in Range(Registry) :
          tl.name \in Range(names) <=> (tl.has_tags /\ tl.tags \cap tags # {})

(* C6: on_list_tools returns the full downstream list unchanged to an unscoped
   caller, and to a scoped caller exactly the tools whose non-empty tag set
   meets the caller's connection-type tags. *)
C6_ListFilter ==
    (ListDone /\ request.has_ctx) =>
        /\ ~Scoped => response = Return(Names(Registry))
        /\ (Scoped /\ response.status = "ok") => ListsExactly(response.tools, Entitled)

(* C6 witness: a scoped caller with a connection was listed some but not all
   of the tagged tools *)
C6_Witness ==
    /\ ListDone /\ Scoped /\ response.status = "ok"
    /\ Len(response.tools) = 2

(* C7: no tool whose tags are outside the scoped caller's entitled set ever
   executes for that caller. *)
C7_RejectedAtDispatch ==
    \A e \in executed :
        e.consumer_id # NoId => RegistryTool(e.tool).tags \cap Entitled # {}

(* C8: a connection of a family outside CONNECTION_TYPES is dropped: a scoped
   list-tools request whose lookup answers completes with the tools of the
   other connections' tags. *)
C8_UnmappedFamilyDropped ==
    (ListDone /\ Scoped /\ request.lookup = "ok") =>
        /\ response.status = "ok"
        /\ ListsExactly(response.tools, Entitled)

(* C9: a scoped list-tools request whose connections lookup fails returns
   every tagged tool instead of the error. *)
C9_LookupFailureFallsBack ==
    (ListDone /\ Scoped /\ request.lookup = "failed") =>
        /\ response.status = "ok"
        /\ ListsExactly(response.tools, Range(CONNECTION_TYPES))

(* The request has reached the handler downstream of UserAuthMiddleware *)
HandedDownstream == request.phase = "authed"

Configured_consumer_id == auth.consumer_id # NoId

(* C27: with a consumer id configured, the context state consumer_id holds
   that id whenever the request is handed downstream, with none configured the
   state is as the request came in (unset); and what the downstream handler
   answered stays the answer of the request. *)
C27_StateSetBeforeDownstream ==
    /\ [](HandedDownstream =>
            IF Configured_consumer_id
            THEN request.has_ctx /\ request.state_cid = auth.consumer_id
            ELSE request.state_cid = NoId)
    /\ [][(request.phase = "done" /\ request'.phase = "done") => response' = response]_vars

(* C27 witness: a request with a context went downstream under a configured
   consumer id and was answered *)
C27_Witness ==
    /\ Configured_consumer_id /\ request.has_ctx
    /\ request.phase = "done" /\ request.state_cid = auth.consumer_id
    /\ response.status = "ok"

(* C28: a request without a host context ends in ValueError, without the
   downstream handler being called, in on_request when a consumer id is
   configured and in on_list_tools in every case. *)
C28_NoContextRaises ==
    ~request.has_ctx =>
        /\ Configured_consumer_id => ~HandedDownstream
        /\ (request.phase = "done" /\ (Configured_consumer_id \/ request.method = "tools/list"))
              => response = Raise("ValueError")

(* C28 witness: a list-tools request without a context, no consumer id
   configured, was refused by on_list_tools *)
C28_Witness ==
    /\ ~request.has_ctx /\ ~Configured_consumer_id
    /\ ListDone /\ response = Raise("ValueError")

----------------------------------------------------------------------------
(* Properties of the registry build *)

CallsOf(who, op, nm) ==
    Cardinality({i \in DOMAIN mcp.calls :
                    /\ mcp.calls[i].by = who
                    /\ mcp.calls[i].op = op
                    /\ mcp.calls[i].name = nm})

CallsBy(who) == {i \in DOMAIN mcp.calls : mcp.calls[i].by = who}

(* C12: customize_tools calls remove_tool(name) once and add_tool once for
   every tool of the registry, and makes no such call on an empty registry. *)
C12_ReplacesWholesale ==
    build.phase = "customized" =>
        /\ \A i \in DOMAIN mcp.tools :
              /\ CallsOf("customize", "remove_tool", mcp.tools[i].name) = 1
              /\ CallsOf("customize", "add_tool", mcp.tools[i].name) = 1
        /\ mcp.tools = <<>> => CallsBy("customize") = {}

(* import_toolkit_functions has run: it raised, or it came to its end *)
ImportRan == build.phase = "failed" \/ build.imported

RegisteredNames == {mcp.tools[i].name : i \in DOMAIN mcp.tools}

(* The callables of the toolkit whose name has a domain and an operation *)
Callables ==
    {e \in Range(Toolkit) : e.callable /\ ~StartsWithDunder(e) /\ Len(e.parts) >= 2}

(* The errors that end the build before the registration loop *)
StartupErrors == {"ValueError", "FileNotFoundError", "UpstreamError", "KeyError"}

(* The caller's connection-type tags: every tag of the table when no consumer
   is given, else those of the consumer's connections *)
CallerTags ==
    IF consumer.id = NoId THEN Range(CONNECTION_TYPES)
    ELSE { CONNECTION_TYPES[a] : a \in Range(consumer.connections) \cap DOMAIN CONNECTION_TYPES }

Configured(e) ==
    /\ e.parts[1] \in DOMAIN build.validated
    /\ e.parts[2] \in Range(build.validated[e.parts[1]])

(* C14: a registration that raises is isolated: the build does not abort for
   it, the tool is left out and every other selected tool is still handed to
   add_tool and registered. *)
C14_FailureIsolated ==
    /\ build.phase = "failed" => build.error \in StartupErrors
    /\ build.imported =>
          \A e \in Callables :
              (e.parts[1] \in CallerTags /\ Configured(e)) =>
                  /\ CallsOf("import", "add_tool", e.name) = 1
                  /\ e.name \in RegisteredNames <=> e.name \notin toolkit.raising

(* C14 witness: the registration of the first selected tool raised and a later
   one is registered *)
C14_Witness ==
    /\ build.imported
    /\ \E i, j \in DOMAIN mcp.calls :
          /\ i < j
          /\ mcp.calls[i].raised /\ ~mcp.calls[j].raised
          /\ mcp.calls[j].name \in RegisteredNames
          /\ mcp.calls[i].name \notin RegisteredNames

NoRepeats(seq) == \A i, j \in DOMAIN seq : seq[i] = seq[j] => i = j

FirstIndex(seq, x) == CHOOSE i \in DOMAIN seq : seq[i] = x /\ \A j \in 1..(i - 1) : seq[j] # x

(* out is inp with every repeated element removed, first occurrences kept in
   their order *)
IsFirstOccurrences(inp, out) ==
    /\ NoRepeats(out)
    /\ Range(out) = Range(inp)
    /\ \A i, j \in DOMAIN out : i < j => FirstIndex(inp, out[i]) < FirstIndex(inp, out[j])

(* A configuration all of whose domains and operation kinds are recognised and
   whose values are lists *)
Recognised(cfg) ==
    /\ cfg.kind = "dict"
    /\ \A d \in DOMAIN cfg.items :
          /\ d \in CHIFT_DOMAINS
          /\ cfg.items[d].list
          /\ Range(cfg.items[d].ops) \subseteq CHIFT_OPERATION_TYPES

ValidatedAsClaimed ==
    (build.phase # "start" /\ Recognised(config)) =>
        /\ build.phase = "validated"
        /\ DOMAIN build.validated = DOMAIN config.items
        /\ \A d \in DOMAIN config.items :
              IsFirstOccurrences(config.items[d].ops, build.validated[d])
        /\ config = Dict([d \in {"accounting"} |-> ListOf(<<"get", "get", "update">>)]) =>
              build.validated = [d \in {"accounting"} |-> <<"get", "update">>]

(* C15: for a configuration of recognised domains and operation kinds with
   list values, validate_config returns a mapping of the same domains in which
   each list is the input list without its repeated operation kinds, first
   occurrences kept in order ({accounting: [get, get, update]} gives
   {accounting: [get, update]}); the input mapping is not modified. *)
C15_ValidConfigDeduplicated == []ValidatedAsClaimed /\ [][config' = config]_vars

(* C15 witness: the configuration of the example has been validated *)
C15_Witness ==
    /\ build.phase = "validated"
    /\ config = Dict([d \in {"accounting"} |-> ListOf(<<"get", "get", "update">>)])
    /\ build.validated["accounting"] = <<"get", "update">>

(* C16: a configuration that is no mapping, names an unrecognised domain, has
   a value that is no list or holds an unrecognised operation kind makes
   import_toolkit_functions raise ValueError before any add_tool call. *)
C16_InvalidConfigRejectedFirst ==
    (ImportRan /\ ~Recognised(config)) =>
        /\ build.phase = "failed" /\ build.error = "ValueError"
        /\ mcp.calls = <<>>
        /\ mcp.tools \in {<<>>, ConsumerTools}

(* C16 witness: the import of a configuration with an unrecognised domain
   has raised *)
C16_Witness ==
    /\ build.phase = "failed" /\ build.error = "ValueError"
    /\ config.kind = "dict" /\ "invalid_domain" \in DOMAIN config.items
    /\ toolkit.exists

(* C17: import_toolkit_functions hands a toolkit callable to add_tool if and
   only if its domain is among the caller's connection-type tags, its domain
   is a key of the validated configuration and its operation kind is in that
   key's list; with no consumer id the connection-type condition excludes no
   callable of a recognised domain. *)
C17_RegisteredIffEntitledAndConfigured ==
    build.imported =>
        \A e \in Callables :
            /\ CallsOf("import", "add_tool", e.name) = 1 <=>
                  (e.parts[1] \in CallerTags /\ Configured(e))
            /\ (consumer.id = NoId /\ e.parts[1] \in CHIFT_DOMAINS) =>
                  (CallsOf("import", "add_tool", e.name) = 1 <=> Configured(e))

----------------------------------------------------------------------------
(* Properties of the schema resolver *)

Resolved == resolution.phase = "done"

RECURSIVE Nodes(_)
Nodes(node) == {node} \cup UNION {Nodes(node.kids[i]) : i \in DOMAIN node.kids}

RECURSIVE SumSeq(_)
SumSeq(seq) == IF seq = <<>> THEN 0 ELSE Head(seq) + SumSeq(Tail(seq))

(* The number of dicts under node (node included) that hold the key *)
RECURSIVE CountKey(_, _)
CountKey(node, key) ==
    (IF HasKey(node, key) THEN 1 ELSE 0)
    + SumSeq([i \in DOMAIN node.kids |-> CountKey(node.kids[i], key)])

(* node with each of its reference objects replaced by repl *)
RECURSIVE Subst(_, _)
Subst(node, repl) ==
    IF node.t = "dict" /\ node.keys = <<"$ref">> THEN repl
    ELSE [node EXCEPT !.kids = [i \in DOMAIN node.kids |-> Subst(node.kids[i], repl)]]

SchemaA == Lookup(components_schemas(doc), "A")

SchemaB == Lookup(components_schemas(doc), "B")

(* body holds one reference, a reference object that names schema x *)
ReferencesOnce(body, name) ==
    /\ CountKey(body, "$ref") = 1
    /\ Obj(<<"$ref">>, <<Str(SchemaPath(name))>>) \in Nodes(body)

(* A references B, B references A, and the paths section refers to A *)
MutualDocument ==
    /\ HasKey(doc, "components")
    /\ ReferencesOnce(SchemaA, "B") /\ ReferencesOnce(SchemaB, "A")
    /\ Get(doc, "paths", EmptyObj) = Obj(<<"schema">>, <<Ref(SchemaPath("A"))>>)

(* C18: resolve_openapi_refs comes to its end on every document, the
   self-referential and mutually referential ones included. *)
C18_Terminates == <>Resolved

(* C18 witness: the resolution of a document whose schemas A and B refer to
   each other has ended *)
C18_Witness == Resolved /\ MutualDocument

(* Every schema reference of the document names a schema it holds *)
WellFormed ==
    \A n \in Nodes(doc) :
        (HasKey(n, "$ref") /\ IsSchemaRef(Lookup(n, "$ref").v)) =>
            HasKey(components_schemas(doc), SchemaName(Lookup(n, "$ref").v))

(* C19 as stated: the result for a well-formed document holds no node with a
   `$ref`; circular-reference markers are the only trace of a reference. *)
C19_NoRefLeft ==
    (Resolved /\ WellFormed) =>
        \A n \in Nodes(resolution.result) : ~HasKey(n, "$ref")

(* C19 as amended: the result for any document holds no node that consists of
   a `$ref` alone naming a schema of components/schemas; what is left is a
   `$ref` beside sibling keys, one outside #/components/schemas/ or one that
   names a missing schema, and a reference met while it is being resolved has
   become a marker. *)
C19_NoResolvableRefLeft ==
    Resolved =>
        \A n \in Nodes(resolution.result) :
            IsRefObject(n) =>
                \/ ~IsSchemaRef(n.kids[1].v)
                \/ ~HasKey(components_schemas(doc), SchemaName(n.kids[1].v))

(* C19 witness: a reference to A was replaced by A's schema, which keeps a
   `$ref` beside a sibling key *)
C19_Witness ==
    /\ Resolved
    /\ Get(doc, "paths", EmptyObj) = Obj(<<"schema">>, <<Ref(SchemaPath("A"))>>)
    /\ HasKey(doc, "components") /\ SchemaA = SiblingRef("B")
    /\ Get(resolution.result, "paths", EmptyObj) = Obj(<<"schema">>, <<SiblingRef("B")>>)

(* C20: resolving a reference to A, where A references B and B references A,
   gives A's schema with B's schema in place of its reference and, in that,
   one circular-reference marker for A in place of B's reference: one marker,
   A and B inlined once each, no reference left. *)
C20_MutualCycleOneMarker ==
    (Resolved /\ MutualDocument) =>
        LET r == Lookup(Get(resolution.result, "paths", EmptyObj), "schema")
            marker == Obj(<<"$circular_ref">>, <<Str(SchemaPath("A"))>>)
        IN /\ CountKey(r, "$circular_ref") = 1
           /\ CountKey(r, "$ref") = 0
           /\ r = Subst(SchemaA, Subst(SchemaB, marker))

(* C20 witness: such a document has been resolved, the references nested in
   properties *)
C20_Witness ==
    /\ Resolved /\ MutualDocument
    /\ SchemaA = Nest(1, Ref(SchemaPath("B")))
    /\ SchemaB = Nest(1, Ref(SchemaPath("A")))

----------------------------------------------------------------------------
(* Properties of create_wrapper_without_consumer_id *)

FirstIsConsumerId == wrapper.params # <<>> /\ wrapper.params[1].name = "consumer_id"

(* C29: for a function whose first parameter is consumer_id the result has the
   function's signature without that parameter, the others as they were, and
   a call of it with any arguments returns what the function returns for the
   consumer id followed by those arguments; for any other function the result
   is the function itself. *)
C29_WrapperBindsFirstParameter ==
    /\ wrapper.state \in {"made", "called"} =>
          IF FirstIsConsumerId
          THEN /\ ~wrapper.is_func
               /\ Len(wrapper.signature) = Len(wrapper.params) - 1
               /\ \A i \in DOMAIN wrapper.signature :
                     wrapper.signature[i] = wrapper.params[i + 1]
          ELSE wrapper.is_func /\ wrapper.signature = wrapper.params
    /\ wrapper.state = "called" =>
          wrapper.returned =
              CallFunc(wrapper.params,
                       IF FirstIsConsumerId THEN <<wrapper.consumer_id>> \o wrapper.args
                       ELSE wrapper.args,
                       wrapper.kwargs)

(* C29 witness: a wrapper of a function of three parameters was called with a
   positional and a keyword argument, and the function ran with the consumer
   id in front *)
C29_Witness ==
    /\ wrapper.state = "called" /\ FirstIsConsumerId
    /\ Len(wrapper.params) = 3 /\ wrapper.args = <<"x">> /\ wrapper.kwargs = {"limit"}
    /\ ~wrapper.returned.raised
    /\ wrapper.returned.bound = <<wrapper.consumer_id, "x", "kw">>

----------------------------------------------------------------------------
(* Properties of the endpoint classifiers and the toolkit generator *)

(* The entries of every run made so far *)
Entries(r) == generated[r].info.entries

(* The lower-case key an entry's upper-case method came from *)
KeyOf(method) == CHOOSE k \in HttpMethods : Upper(k) = method

(* The kind the table gives for a method and a last segment *)
KindOf(http_method, last_has_param) ==
    CASE http_method = "get" -> (IF last_has_param THEN "get" ELSE "all")
      [] http_method = "post" -> "create"
      [] http_method \in {"put", "patch"} -> "update"
      [] http_method = "delete" -> "delete"

(* C22: the operation kind depends only on the HTTP method and on whether the
   last path segment has a path parameter: GET on a collection path gives all,
   GET otherwise get, POST create, PUT and PATCH update, DELETE delete; it is
   always one of the five kinds and the three implementations agree. *)
C22_OperationKindTable ==
    /\ \A i \in DOMAIN parser.file : \A k \in DOMAIN parser.file[i].path_data :
          LET path == parser.file[i].path
              http_method == parser.file[i].path_data[k].key
          IN http_method \in HttpMethods =>
                \A impl \in Implementations :
                   /\ http_to_sdk_method(impl, http_method, path)
                         = KindOf(http_method, HasBrace(LastSegment(path)))
                   /\ http_to_sdk_method(impl, http_method, path) \in OperationKinds
    /\ \A r \in DOMAIN generated : \A e \in DOMAIN Entries(r) :
          Entries(r)[e].sdk_method
             = KindOf(KeyOf(Entries(r)[e].info.method),
                      HasBrace(LastSegment(Entries(r)[e].info.endpoint)))

(* C22 witness: a run classified a GET on a path that has a parameter in an
   inner segment and ends in a slash, as all; and a PATCH as update *)
C22_Witness ==
    \E r \in DOMAIN generated : \E a, b \in DOMAIN Entries(r) :
       /\ Entries(r)[a].info.method = "GET" /\ Entries(r)[a].sdk_method = "all"
       /\ LastSegment(Entries(r)[a].info.endpoint) = <<>>
       /\ \E i \in DOMAIN Entries(r)[a].info.endpoint :
             HasBrace(Entries(r)[a].info.endpoint[i])
       /\ Entries(r)[b].info.method = "PATCH" /\ Entries(r)[b].sdk_method = "update"

(* The scoped two-segment pattern as the running implementation has it *)
MatchesScopedPattern(path) ==
    IF parser.impl = "openapi_spec.parser" THEN path_pattern_match(path).matched
    ELSE StdPatternMatches(path)

(* C21: classification leaves exactly one endpoint entry for every (path,
   declared HTTP method) pair among get, post, put, patch and delete on a path
   matching the scoped two-segment pattern: no pair's entry is overwritten or
   dropped because another pair has the same vertical, resource and kind. *)
C21_OneEntryPerPathMethod ==
    \A r \in DOMAIN generated :
       \A i \in DOMAIN parser.file : \A k \in DOMAIN parser.file[i].path_data :
          (/\ parser.file[i].path_data[k].key \in HttpMethods
           /\ MatchesScopedPattern(parser.file[i].path))
          => Cardinality({e \in DOMAIN Entries(r) :
                            /\ Entries(r)[e].info.endpoint = parser.file[i].path
                            /\ Entries(r)[e].info.method
                                  = Upper(parser.file[i].path_data[k].key)}) = 1

(* The places of an invocation expression where a name is passed as an
   argument, positionally or by keyword *)
ArgPlaces(call, name) ==
    {i \in DOMAIN call.args :
        call.args[i].name = name /\ call.args[i].kind \in {"positional", "keyword"}}

(* The first path parameter other than consumer_id whose name ends in _id *)
IsFirstId(path_params, j) ==
    /\ path_params[j].name # "consumer_id" /\ EndsWithId(path_params[j].name)
    /\ \A h \in 1..(j - 1) :
          path_params[h].name = "consumer_id" \/ ~EndsWithId(path_params[h].name)

(* C25: in the invocation expression of an endpoint every path parameter
   other than consumer_id appears exactly once, positionally if the operation
   is get, update or delete and it is the first such parameter ending in _id,
   by keyword otherwise; consumer_id is never an argument; data=data appears
   exactly when the operation is create or update and the endpoint has a
   request schema. *)
C25_InvocationArguments ==
    \A r \in DOMAIN generated : \A e \in DOMAIN Entries(r) :
       parser.impl \in Generators =>
          LET call == Entries(r)[e].info.sdk_call
              kind == Entries(r)[e].sdk_method
              path_params == Entries(r)[e].info.parameters.path
          IN /\ \A j \in DOMAIN path_params :
                   path_params[j].name # "consumer_id" =>
                      /\ Cardinality(ArgPlaces(call, path_params[j].name)) = 1
                      /\ \A i \in ArgPlaces(call, path_params[j].name) :
                            IF kind \in {"get", "update", "delete"} /\ IsFirstId(path_params, j)
                            THEN call.args[i].kind = "positional"
                            ELSE call.args[i].kind = "keyword"
             /\ ArgPlaces(call, "consumer_id") = {}
             /\ Cardinality({i \in DOMAIN call.args : call.args[i].kind = "positional"}) <= 1
             /\ (\E i \in DOMAIN call.args :
                    call.args[i].kind = "keyword" /\ call.args[i].name = "data")
                <=> (kind \in {"create", "update"}
                     /\ Entries(r)[e].info.request_schema # NoneNode)

(* C25 witness: an update with a request schema whose path parameters are
   consumer_id, folder, invoice_id and line_id is invoked as
   update(invoice_id, data=data, folder=folder, line_id=line_id) *)
C25_Witness ==
    \E r \in DOMAIN generated : \E e \in DOMAIN Entries(r) :
       /\ [j \in DOMAIN Entries(r)[e].info.parameters.path |->
              Entries(r)[e].info.parameters.path[j].name]
             = <<"consumer_id", "folder", "invoice_id", "line_id">>
       /\ Entries(r)[e].sdk_method = "update"
       /\ Entries(r)[e].info.sdk_call.args
             = << Arg("positional", "invoice_id", <<>>), Arg("keyword", "data", <<>>),
                  Arg("keyword", "folder", <<>>), Arg("keyword", "line_id", <<>>) >>

(* The entries of a run whose operationId is not on the denylist of the
   generator that ran *)
Emitted(r) ==
    {e \in DOMAIN Entries(r) :
        Entries(r)[e].info.operation_id \notin EXCLUDED_OPERATIONS(parser.impl)}

(* How often "def " occurs in the text of the methods of a set of entries *)
RECURSIVE DefsOf(_, _)
DefsOf(r, entries) ==
    IF entries = {} THEN 0
    ELSE LET e == CHOOSE x \in entries : TRUE
         IN 1 + CountDef(Entries(r)[e].info.description) + DefsOf(r, entries \ {e})

(* C23: an operation whose operationId is on the denylist is not in the
   generated output: no callable is emitted for it, its types add nothing to
   the imports, and it adds nothing to the total the generator reports. *)
C23_ExcludedNotGenerated ==
    \A r \in DOMAIN generated :
       parser.impl \in Generators =>
          /\ \A m \in DOMAIN generated[r].methods :
                generated[r].methods[m].name \notin EXCLUDED_OPERATIONS(parser.impl)
          /\ Len(generated[r].methods) = Cardinality(Emitted(r))
          /\ generated[r].imports
                = UNION {OperationTypes(parser.impl, Entries(r)[e].info) : e \in Emitted(r)}
          /\ generated[r].count = DefsOf(r, Emitted(r))

(* C23 witness: a run kept two operations, one on the denylist with a schema
   type of its own and one not; one callable was emitted and the excluded
   operation's type is not imported *)
C23_Witness ==
    \E r \in DOMAIN generated : \E a, b \in DOMAIN Entries(r) :
       /\ parser.impl \in Generators
       /\ a \notin Emitted(r) /\ b \in Emitted(r)
       /\ OperationTypes(parser.impl, Entries(r)[a].info) = {"ChiftPageInvoice"}
       /\ OperationTypes(parser.impl, Entries(r)[b].info) = {"Invoice"}
       /\ generated[r].imports = {"Invoice"}
       /\ Len(generated[r].methods) = 1

(* What a run's result says of the tools: their names, their parameter
   lists, the type names of their schemas *)
MethodNames(r) == [m \in DOMAIN generated[r].methods |-> generated[r].methods[m].name]

ParameterListsOf(r) == [m \in DOMAIN generated[r].methods |-> generated[r].methods[m].params]

SchemaTypes(r) ==
    [e \in DOMAIN Entries(r) |->
        <<Entries(r)[e].info.request_schema, Entries(r)[e].info.response_schema>>]

(* C26: a second run of classification and descriptor build on the parser's
   in-memory document, as the first run left it, gives the same tool names,
   parameter lists and schema type names as the first: nothing the first run
   leaves in the document changes the result. *)
C26_SecondRunSame ==
    \A r \in DOMAIN generated :
       /\ MethodNames(r) = MethodNames(1)
       /\ ParameterListsOf(r) = ParameterListsOf(1)
       /\ SchemaTypes(r) = SchemaTypes(1)
       /\ generated[r] = generated[1]

(* C26 witness: the first run changed the in-memory document (a property
   that was a reference is now a type), a second run was made on it, and a
   tool with a request schema came out of both *)
C26_Witness ==
    /\ Len(generated) >= 2
    /\ parser.loaded /\ parser.openapi_data # parser.file
    /\ generated[2].methods # <<>>
    /\ \E e \in DOMAIN Entries(2) :
          /\ HasKey(Entries(2)[e].info.request_schema, "properties")
          /\ generated[2].imports # {}

(* The "_"-separated words of a resource name *)
Words(resource) ==
    IF resource = "product_categories" THEN <<"product", "categories">> ELSE <<resource>>

(* lowercase {vertical}_{resource}_{operation} *)
TripleName(vertical, resource, operation) == <<vertical>> \o Words(resource) \o <<operation>>

(* C24: for one (vertical, resource, operation) triple the tool the generated
   toolkit defines and the tool the reflection mapper makes have the same
   name, lowercase {vertical}_{resource}_{operation}. *)
C24_SameToolName ==
    \A r \in DOMAIN generated : \A e \in DOMAIN Entries(r) :
       \A t \in mapper.tools : \A c \in SdkClasses :
          (/\ parser.impl \in Generators /\ e \in Emitted(r)
           /\ c.area = t.area /\ c.name = t.class_name
           /\ Lit(c.chift_vertical) = Entries(r)[e].vertical
           /\ c.chift_model = Entries(r)[e].model
           /\ t.method = Entries(r)[e].sdk_method)
          => /\ Entries(r)[e].info.operation_id = t.name
             /\ t.name = TripleName(c.chift_vertical, c.chift_model, t.method)

====
